---------------------------- MODULE Spec2Model ----------------------------
(***************************************************************************)
(* A model of oncalendar (src/oncalendar/__init__.py): the field grammar   *)
(* parser Field.parse, the cascading occurrence iterator BaseIterator, the *)
(* zone wrapper TzIterator and the multiplexer OnCalendar.                 *)
(*                                                                         *)
(* Strings are sequences of one-character strings.  A datetime is a record *)
(* of its calendar fields, its tzinfo and its fold, as in Python.  A       *)
(* function that may raise returns either its value or a record with the   *)
(* field exc.  A statement sequence of the source is a chain of operators, *)
(* each taking the values computed so far as parameters.                   *)
(***************************************************************************)
EXTENDS Integers, Sequences, FiniteSets, TLC

(***************************************************************************)
(* Module constants of the source.                                         *)
(***************************************************************************)
MAX_YEAR == 2200

\* Field(IntEnum)
DOW == 0
YEAR == 1
MONTH == 2
DAY == 3
HOUR == 4
MINUTE == 5
SECOND == 6

RANGES(field) ==
    CASE field = DOW -> 0 .. 6
      [] field = YEAR -> 1970 .. (MAX_YEAR - 1)
      [] field = MONTH -> 1 .. 12
      [] field = DAY -> 1 .. 31
      [] field = HOUR -> 0 .. 23
      [] field = MINUTE -> 0 .. 59
      [] field = SECOND -> 0 .. 59

FIELD_NAMES ==
    << "day-of-week", "year", "month", "day-of-month", "hour", "minute", "second" >>

\* raise OnCalendarError(text)
OnCalendarError(text) == [exc |-> "OnCalendarError", text |-> text]

\* Field.msg: "Bad %s" % FIELD_NAMES[self] (indexed from 0 in the source)
msg(field) == OnCalendarError(<< "Bad", FIELD_NAMES[field + 1] >>)

\* An exception, as opposed to a returned value
IsError(v) == "exc" \in DOMAIN v

(***************************************************************************)
(* The proleptic Gregorian calendar of datetime.date.                      *)
(***************************************************************************)
IsLeap(y) == (y % 4 = 0) /\ ((y % 100 # 0) \/ (y % 400 = 0))

\* calendar.monthrange(year, month)[1]
DaysInMonth(y, m) ==
    IF m = 2 THEN (IF IsLeap(y) THEN 29 ELSE 28)
    ELSE IF m \in {4, 6, 9, 11} THEN 30 ELSE 31

DaysBeforeYear(y) ==
    ((y - 1) * 365) + ((y - 1) \div 4) - ((y - 1) \div 100) + ((y - 1) \div 400)

\* The days of a common year before each month
DAYS_BEFORE_MONTH == << 0, 31, 59, 90, 120, 151, 181, 212, 243, 273, 304, 334 >>

DaysBeforeMonth(y, m) ==
    DAYS_BEFORE_MONTH[m] + (IF m > 2 /\ IsLeap(y) THEN 1 ELSE 0)

\* date.toordinal(): 0001-01-01 is day 1
ToOrdinal(y, m, d) == DaysBeforeYear(y) + DaysBeforeMonth(y, m) + d

\* date.weekday(): Monday is 0
Weekday(y, m, d) == (ToOrdinal(y, m, d) + 6) % 7

\* date.fromordinal(n) as <<year, month, day>>: the day n of the year (from 0)
\* falls in month m0 or in the month before it
OrdDay(y, n, m0, preceding) ==
    IF preceding > n
    THEN << y, m0 - 1, (n - (preceding - DaysInMonth(y, m0 - 1))) + 1 >>
    ELSE << y, m0, (n - preceding) + 1 >>

OrdYear(n100, n1, n, y) ==
    IF n1 = 4 \/ n100 = 4 THEN << y - 1, 12, 31 >>
    ELSE OrdDay(y, n, (n + 50) \div 32, DaysBeforeMonth(y, (n + 50) \div 32))

Ord4(n400, n100, n4, n) ==
    OrdYear(n100, n \div 365, n % 365,
            (n400 * 400) + 1 + (n100 * 100) + (n4 * 4) + (n \div 365))

Ord100(n400, n100, n) == Ord4(n400, n100, n \div 1461, n % 1461)

Ord400(n400, n) == Ord100(n400, n \div 36524, n % 36524)

FromOrdinal(n) == Ord400((n - 1) \div 146097, (n - 1) % 146097)

(***************************************************************************)
(* datetime: construction, combine, arithmetic.                            *)
(***************************************************************************)
Datetime(y, mo, d, h, mi, s, us, tz, fold) ==
    [year |-> y, month |-> mo, day |-> d, hour |-> h, minute |-> mi,
     second |-> s, microsecond |-> us, tzinfo |-> tz, fold |-> fold]

\* The datetime of date ymd and second-of-day secs
DatetimeAt(ymd, secs, us, tz, fold) ==
    Datetime(ymd[1], ymd[2], ymd[3], secs \div 3600, (secs % 3600) \div 60,
             secs % 60, us, tz, fold)

\* datetime.combine(needle, time(), tzinfo=tz): midnight of the date, fold 0
CombineMidnight(ymd, tz) == Datetime(ymd[1], ymd[2], ymd[3], 0, 0, 0, 0, tz, 0)

SecondOfDay(dt) == (dt.hour * 3600) + (dt.minute * 60) + dt.second

\* The (day ordinal, second of day) pair of the wall-clock fields of dt
Wall(dt) == << ToOrdinal(dt.year, dt.month, dt.day), SecondOfDay(dt) >>

\* (day, second) pairs normalised so that 0 <= second < 86400
Norm(days, secs) ==
    << days + ((secs - (secs % 86400)) \div 86400), secs % 86400 >>

PairLess(a, b) == a[1] < b[1] \/ (a[1] = b[1] /\ a[2] < b[2])
PairLeq(a, b) == a = b \/ PairLess(a, b)

\* The datetime of the normalised pair p, or OverflowError out of date's range
DatetimeOfPair(p, us, tz, fold) ==
    IF p[1] < 1 \/ p[1] > 3652059 THEN [exc |-> "OverflowError"]
    ELSE DatetimeAt(FromOrdinal(p[1]), p[2], us, tz, fold)

\* datetime.__add__(timedelta(seconds=secs)): the result keeps tzinfo and the
\* microsecond and has fold 0; out of the date range it raises OverflowError
\* (3652059 is date.max.toordinal())
AddSeconds(dt, secs) ==
    DatetimeOfPair(Norm(ToOrdinal(dt.year, dt.month, dt.day), SecondOfDay(dt) + secs),
                   dt.microsecond, dt.tzinfo, 0)

\* date + timedelta(days=n) as <<year, month, day>>
DateAddDays(ymd, n) == FromOrdinal(ToOrdinal(ymd[1], ymd[2], ymd[3]) + n)

(***************************************************************************)
(* tzinfo objects.  "None" is a naive datetime, "utc" is timezone.utc, the *)
(* other values are ZoneInfo keys.  Europe/Riga and Europe/Berlin follow   *)
(* the EU rule: summer time from 01:00 UTC of the last Sunday of March to  *)
(* 01:00 UTC of the last Sunday of October.                                *)
(***************************************************************************)
HasDst(tz) == tz \in {"Europe/Riga", "Europe/Berlin"}

StdOffset(tz) ==
    CASE tz = "Europe/Riga" -> 7200
      [] tz = "Europe/Berlin" -> 3600
      [] OTHER -> 0

LastSundayFrom(last, weekday) == last - ((weekday + 1) % 7)

LastSunday(y, m) == LastSundayFrom(DaysInMonth(y, m), Weekday(y, m, DaysInMonth(y, m)))

\* The UTC (day, second) of the transition of month m (3 or 10) in year y
TransitionUtc(y, m) == << ToOrdinal(y, m, LastSunday(y, m)), 3600 >>

\* Whether the pair p lies in [spring + shift, fall + shift)
InSummer(p, spring, fall, shift) ==
    /\ PairLeq(Norm(spring[1], spring[2] + shift), p)
    /\ PairLess(p, Norm(fall[1], fall[2] + shift))

\* tzinfo.utcoffset(dt) in seconds, from the wall-clock fields and the fold
\* (fold 0: the offset before the transition decides a skipped or repeated
\* wall-clock value; fold 1: the offset after it)
utcoffset(dt) ==
    IF ~HasDst(dt.tzinfo) THEN StdOffset(dt.tzinfo)
    ELSE IF InSummer(Wall(dt), TransitionUtc(dt.year, 3), TransitionUtc(dt.year, 10),
                     IF dt.fold = 0 THEN StdOffset(dt.tzinfo) + 3600
                     ELSE StdOffset(dt.tzinfo))
    THEN StdOffset(dt.tzinfo) + 3600
    ELSE StdOffset(dt.tzinfo)

InstantOfPair(p, us) == << p[1], p[2], us >>

\* The absolute instant of an aware datetime: <<day, second, microsecond>> in UTC
Instant(dt) ==
    InstantOfPair(Norm(ToOrdinal(dt.year, dt.month, dt.day), SecondOfDay(dt) - utcoffset(dt)),
                  dt.microsecond)

\* The wall-clock fields of a datetime as <<day, second, microsecond>>
NaiveKey(dt) == << ToOrdinal(dt.year, dt.month, dt.day), SecondOfDay(dt), dt.microsecond >>

KeyLess(a, b) ==
    \/ a[1] < b[1]
    \/ a[1] = b[1] /\ a[2] < b[2]
    \/ a[1] = b[1] /\ a[2] = b[2] /\ a[3] < b[3]

\* tz.fromutc, given the transitions of the year of u
FromUtcIn(u, tz, spring, fall) ==
    DatetimeOfPair(
        Norm(u[1], u[2] + (IF HasDst(tz) /\ InSummer(<< u[1], u[2] >>, spring, fall, 0)
                           THEN StdOffset(tz) + 3600 ELSE StdOffset(tz))),
        u[3], tz,
        IF HasDst(tz) /\ PairLeq(fall, << u[1], u[2] >>)
           /\ PairLess(<< u[1], u[2] >>, Norm(fall[1], fall[2] + 3600))
        THEN 1 ELSE 0)

FromUtcYear(u, tz, y) == FromUtcIn(u, tz, TransitionUtc(y, 3), TransitionUtc(y, 10))

\* tz.fromutc: the wall-clock value of the UTC instant u in zone tz; fold is 1
\* on the second occurrence of a repeated wall-clock value
fromutc(u, tz) == FromUtcYear(u, tz, FromOrdinal(u[1])[1])

\* datetime.astimezone(tz) of an aware datetime: self when tz is its own tzinfo
astimezone(dt, tz) == IF tz = dt.tzinfo THEN dt ELSE fromutc(Instant(dt), tz)

\* A faulty comparison: a value is also taken to be before an equal one
dt_ltOrEqual(a, b) ==
    IF a.tzinfo = b.tzinfo
    THEN KeyLess(NaiveKey(a), NaiveKey(b)) \/ NaiveKey(a) = NaiveKey(b)
    ELSE KeyLess(Instant(a), Instant(b)) \/ Instant(a) = Instant(b)

\* datetime comparison: two datetimes of one tzinfo compare by their wall-clock
\* fields, the fold ignored; otherwise by their absolute instants
dt_lt(a, b) ==
    IF a.tzinfo = b.tzinfo THEN KeyLess(NaiveKey(a), NaiveKey(b))
    ELSE KeyLess(Instant(a), Instant(b))

dt_eq(a, b) ==
    IF a.tzinfo = b.tzinfo THEN NaiveKey(a) = NaiveKey(b)
    ELSE Instant(a) = Instant(b)

\* A faulty is_imaginary: every wall-clock value is taken to exist
is_imaginaryNever(dt) == FALSE

is_imaginary(dt) == ~dt_eq(dt, astimezone(astimezone(dt, "utc"), dt.tzinfo))

(***************************************************************************)
(* str: a string is a sequence of one-character strings.                   *)
(***************************************************************************)
LowerChars == << "a", "b", "c", "d", "e", "f", "g", "h", "i", "j", "k", "l", "m", "n", "o", "p", "q", "r", "s", "t", "u", "v", "w", "x", "y", "z" >>
UpperChars == << "A", "B", "C", "D", "E", "F", "G", "H", "I", "J", "K", "L", "M", "N", "O", "P", "Q", "R", "S", "T", "U", "V", "W", "X", "Y", "Z" >>
DigitChars == << "0", "1", "2", "3", "4", "5", "6", "7", "8", "9" >>
Whitespace == {" ", "\t", "\n"}

CharUpper(c) ==
    IF \E i \in 1 .. 26 : LowerChars[i] = c
    THEN UpperChars[CHOOSE i \in 1 .. 26 : LowerChars[i] = c] ELSE c

CharLower(c) ==
    IF \E i \in 1 .. 26 : UpperChars[i] = c
    THEN LowerChars[CHOOSE i \in 1 .. 26 : UpperChars[i] = c] ELSE c

\* str.upper(), str.lower()
upper(s) == [i \in 1 .. Len(s) |-> CharUpper(s[i])]
lower(s) == [i \in 1 .. Len(s) |-> CharLower(s[i])]

\* sub in s, for a non-empty sub
Contains(s, sub) ==
    \E i \in 1 .. (Len(s) - Len(sub) + 1) : SubSeq(s, i, i + Len(sub) - 1) = sub

\* s.find(sub) + 1: the position of the first occurrence, 0 when there is none
Find(s, sub) ==
    IF Contains(s, sub)
    THEN CHOOSE i \in 1 .. (Len(s) - Len(sub) + 1) :
            /\ SubSeq(s, i, i + Len(sub) - 1) = sub
            /\ \A j \in 1 .. (i - 1) : SubSeq(s, j, j + Len(sub) - 1) # sub
    ELSE 0

startswith(s, sub) == Len(s) >= Len(sub) /\ SubSeq(s, 1, Len(sub)) = sub
endswith(s, sub) == Len(s) >= Len(sub) /\ SubSeq(s, Len(s) - Len(sub) + 1, Len(s)) = sub

\* s.split(sep): every piece, the empty ones included; i is Find(s, sep)
RECURSIVE split(_, _)
RECURSIVE SplitAt(_, _, _)
SplitAt(s, sep, i) ==
    IF i = 0 THEN << s >>
    ELSE << SubSeq(s, 1, i - 1) >> \o split(SubSeq(s, i + Len(sep), Len(s)), sep)

split(s, sep) == SplitAt(s, sep, Find(s, sep))

\* s.split(sep, maxsplit=1)
Split1At(s, sep, i) ==
    IF i = 0 THEN << s >>
    ELSE << SubSeq(s, 1, i - 1), SubSeq(s, i + Len(sep), Len(s)) >>

split1(s, sep) == Split1At(s, sep, Find(s, sep))

\* s.replace(old, new)
RECURSIVE replace(_, _, _)
RECURSIVE ReplaceAt(_, _, _, _)
ReplaceAt(s, old, new, i) ==
    IF i = 0 THEN s
    ELSE SubSeq(s, 1, i - 1) \o new \o replace(SubSeq(s, i + Len(old), Len(s)), old, new)

replace(s, old, new) == ReplaceAt(s, old, new, Find(s, old))

\* s.strip()
RECURSIVE strip(_)
strip(s) ==
    IF s = << >> THEN s
    ELSE IF s[1] \in Whitespace THEN strip(Tail(s))
    ELSE IF s[Len(s)] \in Whitespace THEN strip(SubSeq(s, 1, Len(s) - 1))
    ELSE s

\* The position of the first (last) whitespace character of t, 0 without one
FirstSpace(t) ==
    IF \E i \in 1 .. Len(t) : t[i] \in Whitespace
    THEN CHOOSE k \in 1 .. Len(t) :
            t[k] \in Whitespace /\ \A j \in 1 .. (k - 1) : t[j] \notin Whitespace
    ELSE 0

LastSpace(t) ==
    IF \E i \in 1 .. Len(t) : t[i] \in Whitespace
    THEN CHOOSE k \in 1 .. Len(t) :
            t[k] \in Whitespace /\ \A j \in (k + 1) .. Len(t) : t[j] \notin Whitespace
    ELSE 0

\* s.split(): the pieces between runs of whitespace, none of them empty
RECURSIVE split_ws(_)
RECURSIVE SplitWsAt(_, _)
SplitWsAt(t, i) ==
    IF t = << >> THEN << >>
    ELSE IF i = 0 THEN << t >>
    ELSE << SubSeq(t, 1, i - 1) >> \o split_ws(SubSeq(t, i + 1, Len(t)))

SplitStripped(t) == SplitWsAt(t, FirstSpace(t))

split_ws(s) == SplitStripped(strip(s))

\* s.rsplit(maxsplit=1) of a stripped string: <<head, last piece>>, or the one piece
RSplit1At(t, i) ==
    IF i = 0 THEN << t >>
    ELSE << strip(SubSeq(t, 1, i - 1)), SubSeq(t, i + 1, Len(t)) >>

rsplit1(t) == RSplit1At(t, LastSpace(t))

SYMBOLIC_DAYS ==
    << << "M", "O", "N", "D", "A", "Y" >>,
       << "T", "U", "E", "S", "D", "A", "Y" >>,
       << "W", "E", "D", "N", "E", "S", "D", "A", "Y" >>,
       << "T", "H", "U", "R", "S", "D", "A", "Y" >>,
       << "F", "R", "I", "D", "A", "Y" >>,
       << "S", "A", "T", "U", "R", "D", "A", "Y" >>,
       << "S", "U", "N", "D", "A", "Y" >> >>

\* [s[:3] for s in SYMBOLIC_DAYS]
SYMBOLIC_DAYS_SHORT == [i \in 1 .. 7 |-> SubSeq(SYMBOLIC_DAYS[i], 1, 3)]

SPECIALS ==
    << << << "m", "i", "n", "u", "t", "e", "l", "y" >>, << "*", "-", "*", "-", "*", " ", "*", ":", "*", ":", "0", "0" >> >>,
       << << "h", "o", "u", "r", "l", "y" >>, << "*", "-", "*", "-", "*", " ", "*", ":", "0", "0", ":", "0", "0" >> >>,
       << << "d", "a", "i", "l", "y" >>, << "*", "-", "*", "-", "*", " ", "0", "0", ":", "0", "0", ":", "0", "0" >> >>,
       << << "m", "o", "n", "t", "h", "l", "y" >>, << "*", "-", "*", "-", "0", "1", " ", "0", "0", ":", "0", "0", ":", "0", "0" >> >>,
       << << "w", "e", "e", "k", "l", "y" >>, << "M", "o", "n", " ", "*", "-", "*", "-", "*", " ", "0", "0", ":", "0", "0", ":", "0", "0" >> >>,
       << << "y", "e", "a", "r", "l", "y" >>, << "*", "-", "0", "1", "-", "0", "1", " ", "0", "0", ":", "0", "0", ":", "0", "0" >> >>,
       << << "a", "n", "n", "u", "a", "l", "l", "y" >>, << "*", "-", "0", "1", "-", "0", "1", " ", "0", "0", ":", "0", "0", ":", "0", "0" >> >>,
       << << "q", "u", "a", "r", "t", "e", "r", "l", "y" >>, << "*", "-", "0", "1", ",", "0", "4", ",", "0", "7", ",", "1", "0", "-", "0", "1", " ", "0", "0", ":", "0", "0", ":", "0", "0" >> >>,
       << << "s", "e", "m", "i", "a", "n", "n", "u", "a", "l", "l", "y" >>, << "*", "-", "0", "1", ",", "0", "7", "-", "0", "1", " ", "0", "0", ":", "0", "0", ":", "0", "0" >> >> >>

(***************************************************************************)
(* Field: the field grammar parser.                                        *)
(***************************************************************************)
DigitValue(c) == (CHOOSE i \in 1 .. 10 : DigitChars[i] = c) - 1

\* int(value) of a string of digits
RECURSIVE IntOf(_)
IntOf(value) ==
    IF value = << >> THEN 0
    ELSE (IntOf(SubSeq(value, 1, Len(value) - 1)) * 10) + DigitValue(value[Len(value)])

\* int(value) converts a string of at most sys.get_int_max_str_digits()
\* digits, 4300 unless the interpreter is told otherwise; a longer one raises
\* ValueError
MaxStrDigits == 4300

ValueError == [exc |-> "ValueError"]

\* Field._int
Field__int(self, value) ==
    IF value = << >> THEN msg(self)
    ELSE IF \E i \in 1 .. Len(value) : \A k \in 1 .. 10 : DigitChars[k] # value[i]
    THEN msg(self)
    ELSE IF Len(value) > MaxStrDigits THEN ValueError
    ELSE [val |-> IntOf(value)]

\* Field.int for the weekday field, s upper-cased
SymbolicDay(self, s) ==
    IF \E i \in 1 .. 7 : SYMBOLIC_DAYS[i] = s
    THEN [val |-> (CHOOSE i \in 1 .. 7 : SYMBOLIC_DAYS[i] = s) - 1]
    ELSE IF \E i \in 1 .. 7 : SYMBOLIC_DAYS_SHORT[i] = s
    THEN [val |-> (CHOOSE i \in 1 .. 7 : SYMBOLIC_DAYS_SHORT[i] = s) - 1]
    ELSE msg(self)

\* Field.int: the two-digit years
Century(self, v) ==
    IF self = YEAR /\ v < 70 THEN v + 2000
    ELSE IF self = YEAR /\ v < 100 THEN v + 1900
    ELSE v

\* Field.int: the range check
InRange(self, v) == IF v \notin RANGES(self) THEN msg(self) ELSE [val |-> v]

\* Field.int for the numeric fields, r the outcome of Field._int
Resolve(self, r) == IF IsError(r) THEN r ELSE InRange(self, Century(self, r.val))

\* Field.int
Field_int(self, s) ==
    IF self = DOW THEN SymbolicDay(self, upper(s))
    ELSE Resolve(self, Field__int(self, s))

SetMax(S) == CHOOSE x \in S : \A y \in S : y <= x
SetMin(S) == CHOOSE x \in S : \A y \in S : x <= y

\* set(range(start, stop)): the step dropped
RangeStepAll(start, stop, step) == start .. (stop - 1)

\* set(range(start, stop)[::step])
RangeStep(start, stop, step) ==
    {x \in start .. (stop - 1) : (x - start) % step = 0}

\* set(sorted(items)): the step dropped
SortedStepAll(items, step) == items

\* set(sorted(items)[::step])
SortedStep(items, step) ==
    {x \in items : Cardinality({y \in items : y < x}) % step = 0}

\* Field.parse, the step branch: every step-th of the items
TakeStep(self, items, step, reverse) ==
    IF IsError(items) THEN items
    ELSE IF Cardinality(items.val) = 1
    THEN [val |-> RangeStep(CHOOSE x \in items.val : TRUE,
                            (IF reverse THEN 0 ELSE SetMax(RANGES(self))) + 1, step)]
    ELSE [val |-> SortedStep(items.val, step)]

\* The interval branch without the test of `end < start`
IntervalAny(self, start, end, reverse) ==
    IF IsError(start) THEN start
    ELSE IF IsError(end) THEN end
    ELSE IF reverse THEN [val |-> (0 - end.val) .. (0 - start.val)]
    ELSE [val |-> start.val .. end.val]

\* Field.parse, the interval branch
Interval(self, start, end, reverse) ==
    IF IsError(start) THEN start
    ELSE IF IsError(end) THEN end
    ELSE IF end.val < start.val THEN msg(self)
    ELSE IF reverse THEN [val |-> (0 - end.val) .. (0 - start.val)]
    ELSE [val |-> start.val .. end.val]

\* Field.parse, the single value
Single(self, v, reverse) ==
    IF IsError(v) THEN v
    ELSE IF reverse
    THEN (IF v.val > 28 THEN msg(self) ELSE [val |-> {0 - v.val}])
    ELSE [val |-> {v.val}]

\* Field.parse: [val |-> the set] or the OnCalendarError raised
RECURSIVE Field_parse(_, _, _)
\* the comma branch: the union over the terms, the first error raised winning
RECURSIVE ParseTerms(_, _, _, _)
RECURSIVE UnionTerms(_, _, _, _, _)
UnionTerms(self, terms, reverse, result, r) ==
    IF IsError(r) THEN r
    ELSE ParseTerms(self, Tail(terms), reverse, result \cup r.val)

ParseTerms(self, terms, reverse, result) ==
    IF terms = << >> THEN [val |-> result]
    ELSE UnionTerms(self, terms, reverse, result, Field_parse(self, Head(terms), reverse))

\* the step branch, step the outcome of Field._int(step_str)
RECURSIVE ParseStep(_, _, _, _)
ParseStep(self, term, step, reverse) ==
    IF IsError(step) THEN step
    ELSE IF step.val = 0 THEN msg(self)
    ELSE TakeStep(self, Field_parse(self, term, reverse), step.val, reverse)

RECURSIVE SplitStep(_, _, _)
SplitStep(self, parts, reverse) ==
    ParseStep(self, parts[1], Field__int(self, parts[2]), reverse)

SplitInterval(self, parts, reverse) ==
    Interval(self, Field_int(self, parts[1]), Field_int(self, parts[2]), reverse)

\* Field.parse without the rejection of a `*` inside a longer token
Field_parseStarTerm(self, s, reverse) ==
    IF self = DAY /\ startswith(s, << "~" >>)
    THEN Field_parse(self, Tail(s), TRUE)
    ELSE IF self # DOW /\ s = << "*" >>
    THEN [val |-> RANGES(self)]
    ELSE IF self = DOW /\ endswith(s, << "," >>)
    THEN Field_parse(self, SubSeq(s, 1, Len(s) - 1), FALSE)
    ELSE IF self = DOW /\ Contains(s, << "-" >>)
    THEN Field_parse(self, replace(s, << "-" >>, << ".", "." >>), FALSE)
    ELSE IF Contains(s, << "," >>)
    THEN ParseTerms(self, split(s, << "," >>), reverse, {})
    ELSE IF Contains(s, << "/" >>) /\ self # DOW
    THEN SplitStep(self, split1(s, << "/" >>), reverse)
    ELSE IF Contains(s, << ".", "." >>)
    THEN SplitInterval(self, split1(s, << ".", "." >>), reverse)
    ELSE Single(self, Field_int(self, s), reverse)

Field_parse(self, s, reverse) ==
    IF self = DAY /\ startswith(s, << "~" >>)
    THEN Field_parse(self, Tail(s), TRUE)
    ELSE IF self # DOW /\ s = << "*" >>
    THEN [val |-> RANGES(self)]
    ELSE IF Contains(s, << "*" >>)
    THEN msg(self)
    ELSE IF self = DOW /\ endswith(s, << "," >>)
    THEN Field_parse(self, SubSeq(s, 1, Len(s) - 1), FALSE)
    ELSE IF self = DOW /\ Contains(s, << "-" >>)
    THEN Field_parse(self, replace(s, << "-" >>, << ".", "." >>), FALSE)
    ELSE IF Contains(s, << "," >>)
    THEN ParseTerms(self, split(s, << "," >>), reverse, {})
    ELSE IF Contains(s, << "/" >>) /\ self # DOW
    THEN SplitStep(self, split1(s, << "/" >>), reverse)
    ELSE IF Contains(s, << ".", "." >>)
    THEN SplitInterval(self, split1(s, << ".", "." >>), reverse)
    ELSE Single(self, Field_int(self, s), reverse)

(***************************************************************************)
(* BaseIterator.                                                           *)
(***************************************************************************)
WrongNumberOfFields == OnCalendarError(<< "Wrong number of fields" >>)
BadTime == OnCalendarError(<< "Bad time" >>)
BadDate == OnCalendarError(<< "Bad date" >>)

\* The end of __init__ without the test for parts left over
InitFinishLenient(weekdays, rest, d, t, dt) ==
    IF IsError(weekdays) THEN weekdays
    ELSE [dt       |-> IF dt.tzinfo \in {"None", "utc"} THEN dt
                       ELSE [dt EXCEPT !.tzinfo = "None"],
          hours    |-> t.hours,
          minutes  |-> t.minutes,
          seconds  |-> t.seconds,
          years    |-> d.years,
          months   |-> d.months,
          days     |-> d.days,
          weekdays |-> weekdays.val,
          fixup_tz |-> IF dt.tzinfo \in {"None", "utc"} THEN "None" ELSE dt.tzinfo,
          any_reverse_day |-> \E x \in d.days : x < 0]

\* BaseIterator.__init__, the end: fixup_tz and any_reverse_day; t and d hold
\* the parsed time and date sets, dt is start.replace(microsecond=0)
InitFinish(weekdays, rest, d, t, dt) ==
    IF IsError(weekdays) THEN weekdays
    ELSE IF rest # << >> THEN WrongNumberOfFields
    ELSE [dt       |-> IF dt.tzinfo \in {"None", "utc"} THEN dt
                       ELSE [dt EXCEPT !.tzinfo = "None"],
          hours    |-> t.hours,
          minutes  |-> t.minutes,
          seconds  |-> t.seconds,
          years    |-> d.years,
          months   |-> d.months,
          days     |-> d.days,
          weekdays |-> weekdays.val,
          fixup_tz |-> IF dt.tzinfo \in {"None", "utc"} THEN "None" ELSE dt.tzinfo,
          any_reverse_day |-> \E x \in d.days : x < 0]

\* the weekday field
InitWeekday(parts, d, t, dt) ==
    IF IsError(d) THEN d
    ELSE InitFinish(IF parts # << >> THEN Field_parse(DOW, Head(parts), FALSE)
                    ELSE [val |-> RANGES(DOW)],
                    IF parts # << >> THEN Tail(parts) ELSE parts,
                    d, t, dt)

\* the three date sets, or the first error raised
DateSets(years, months, days) ==
    IF IsError(years) THEN years
    ELSE IF IsError(months) THEN months
    ELSE IF IsError(days) THEN days
    ELSE [years |-> years.val, months |-> months.val, days |-> days.val]

ParseDate(date_parts) ==
    DateSets(Field_parse(YEAR, date_parts[1], FALSE),
             Field_parse(MONTH, date_parts[2], FALSE),
             Field_parse(DAY, date_parts[3], FALSE))

\* date_parts = parts.pop().split("-")
InitDateParts(date_parts) ==
    IF Len(date_parts) \notin {2, 3} THEN BadDate
    ELSE ParseDate(IF Len(date_parts) = 2 THEN << << "*" >> >> \o date_parts
                   ELSE date_parts)

DefaultDate ==
    [years |-> RANGES(YEAR), months |-> RANGES(MONTH), days |-> RANGES(DAY)]

\* parts and "-" in parts[-1] and parts[-1][0] in "0123456789*"
HasDate(parts) ==
    /\ parts # << >>
    /\ Contains(parts[Len(parts)], << "-" >>)
    /\ \E k \in 1 .. 11 : (DigitChars \o << "*" >>)[k] = parts[Len(parts)][1]

\* the date field
InitDate(parts, hasDate, t, dt) ==
    IF IsError(t) THEN t
    ELSE InitWeekday(IF hasDate THEN SubSeq(parts, 1, Len(parts) - 1) ELSE parts,
                     IF hasDate THEN InitDateParts(split(parts[Len(parts)], << "-" >>))
                     ELSE DefaultDate,
                     t, dt)

\* the three time sets, or the first error raised
TimeSets(hours, minutes, seconds) ==
    IF IsError(hours) THEN hours
    ELSE IF IsError(minutes) THEN minutes
    ELSE IF IsError(seconds) THEN seconds
    ELSE [hours |-> hours.val, minutes |-> minutes.val, seconds |-> seconds.val]

ParseTime(time_parts) ==
    TimeSets(Field_parse(HOUR, time_parts[1], FALSE),
             Field_parse(MINUTE, time_parts[2], FALSE),
             Field_parse(SECOND, time_parts[3], FALSE))

\* The time parts with `*` for the seconds left out
InitTimePartsStar(time_parts) ==
    IF Len(time_parts) \notin {2, 3} THEN BadTime
    ELSE ParseTime(IF Len(time_parts) = 2 THEN Append(time_parts, << "*" >>)
                   ELSE time_parts)

\* time_parts = parts.pop().split(":")
InitTimeParts(time_parts) ==
    IF Len(time_parts) \notin {2, 3} THEN BadTime
    ELSE ParseTime(IF Len(time_parts) = 2 THEN Append(time_parts, << "0" >>)
                   ELSE time_parts)

DefaultTime == [hours |-> {0}, minutes |-> {0}, seconds |-> {0}]

\* the time field
InitTime(parts, hasTime, dt) ==
    InitDate(IF hasTime THEN SubSeq(parts, 1, Len(parts) - 1) ELSE parts,
             HasDate(IF hasTime THEN SubSeq(parts, 1, Len(parts) - 1) ELSE parts),
             IF hasTime THEN InitTimeParts(split(parts[Len(parts)], << ":" >>))
             ELSE DefaultTime,
             dt)

InitParts(parts, dt) ==
    IF parts = << >> THEN WrongNumberOfFields
    ELSE InitTime(parts, Contains(parts[Len(parts)], << ":" >>), dt)

\* SPECIALS[key] if key in SPECIALS, else the expression itself
Expand(expression, key) ==
    IF \E i \in 1 .. Len(SPECIALS) : SPECIALS[i][1] = key
    THEN SPECIALS[CHOOSE i \in 1 .. Len(SPECIALS) : SPECIALS[i][1] = key][2]
    ELSE expression

\* BaseIterator.__init__: the iterator object, or the OnCalendarError raised
BaseIterator_init(expression, start) ==
    InitParts(split_ws(replace(Expand(expression, lower(expression)),
                               << "~" >>, << "-", "~" >>)),
              [start EXCEPT !.microsecond = 0])


\* The number of passes of a scanning loop over a field that counts modulo n:
\* each pass adds one to the value v, which is not in allowed, and the loop is
\* left when the value has rolled over to 0 or is in allowed
ScanSteps(v, allowed, n) ==
    SetMin({k \in 1 .. n : ((v + k) % n = 0) \/ (((v + k) % n) \in allowed)})

\* the while loop of advance_second: self.dt += SECOND, once per pass
ScanSecond(dt, seconds) ==
    IF dt.second \in seconds THEN dt
    ELSE AddSeconds(dt, ScanSteps(dt.second, seconds, 60))

\* A faulty jump: one minute past the target second
JumpSecondLate(self) ==
    IF Cardinality(self.seconds) = 1
    THEN AddSeconds(self.dt,
                    (((CHOOSE x \in self.seconds : TRUE) - self.dt.second) % 60) + 60)
    ELSE self.dt

\* A faulty jump: to the target second of the minute self.dt is in
JumpSecondBack(self) ==
    IF Cardinality(self.seconds) = 1
    THEN [self.dt EXCEPT !.second = CHOOSE x \in self.seconds : TRUE]
    ELSE self.dt

\* advance_second: the jump to the target second when there is just one
JumpSecond(self) ==
    IF Cardinality(self.seconds) = 1
    THEN AddSeconds(self.dt, ((CHOOSE x \in self.seconds : TRUE) - self.dt.second) % 60)
    ELSE self.dt

\* BaseIterator.advance_second: <<the value returned, self.dt>>
advance_second(self) ==
    IF self.dt.second \in self.seconds THEN << FALSE, self.dt >>
    ELSE << TRUE, ScanSecond(JumpSecond(self), self.seconds) >>

\* the while loop of advance_minute: self.dt += MINUTE, once per pass
ScanMinute(dt, minutes) ==
    IF dt.minute \in minutes THEN dt
    ELSE AddSeconds(dt, 60 * ScanSteps(dt.minute, minutes, 60))

\* BaseIterator.advance_minute: <<the value returned, self.dt>>
advance_minute(self) ==
    IF self.dt.minute \in self.minutes THEN << FALSE, self.dt >>
    ELSE << TRUE, ScanMinute([self.dt EXCEPT !.second = 0], self.minutes) >>

\* the while loop of advance_hour: self.dt += HOUR, once per pass
ScanHour(dt, hours) ==
    IF dt.hour \in hours THEN dt
    ELSE AddSeconds(dt, 3600 * ScanSteps(dt.hour, hours, 24))

\* BaseIterator.advance_hour: <<the value returned, self.dt>>
advance_hour(self) ==
    IF self.dt.hour \in self.hours THEN << FALSE, self.dt >>
    ELSE << TRUE, ScanHour([self.dt EXCEPT !.minute = 0, !.second = 0], self.hours) >>

\* A faulty match_dom: the offset from the end of the month is off by one
match_domOff(self, d) ==
    IF d[3] \in self.days THEN TRUE
    ELSE IF self.any_reverse_day
    THEN (d[3] - DaysInMonth(d[1], d[2])) \in self.days
    ELSE FALSE

\* BaseIterator.match_dom, d a <<year, month, day>>
match_dom(self, d) ==
    IF d[3] \in self.days THEN TRUE
    ELSE IF self.any_reverse_day
    THEN (d[3] - DaysInMonth(d[1], d[2]) - 1) \in self.days
    ELSE FALSE

\* A faulty match_dow: every weekday matches
match_dowAny(self, d) == TRUE

\* BaseIterator.match_dow
match_dow(self, d) == Weekday(d[1], d[2], d[3]) \in self.weekdays

\* advance_day: the loop is left with needle n
DayFound(self, n) == n[3] = 1 \/ (match_dow(self, n) /\ match_dom(self, n))

\* the while loop of advance_day, entered with a needle that does not match:
\* needle += td(days=1), once per pass, until the needle is the first of a
\* month or matches
ScanDay(self, needle) ==
    DateAddDays(needle,
                SetMin({k \in 1 .. 31 : DayFound(self, DateAddDays(needle, k))}))

\* advance_day, needle being self.dt.date()
AdvanceDayFrom(self, needle) ==
    IF match_dow(self, needle) /\ match_dom(self, needle) THEN << FALSE, self.dt >>
    ELSE << TRUE, CombineMidnight(ScanDay(self, needle), self.dt.tzinfo) >>

\* BaseIterator.advance_day: <<the value returned, self.dt>>
advance_day(self) == AdvanceDayFrom(self, << self.dt.year, self.dt.month, self.dt.day >>)

\* (needle.replace(day=1) + td(days=32)).replace(day=1), n being the sum
FirstOfMonth(n) == << n[1], n[2], 1 >>

\* the while loop of advance_month
RECURSIVE ScanMonth(_, _)
ScanMonth(needle, months) ==
    IF needle[2] \in months THEN needle
    ELSE ScanMonth(FirstOfMonth(DateAddDays(<< needle[1], needle[2], 1 >>, 32)), months)

\* BaseIterator.advance_month: <<the value returned, self.dt>>
advance_month(self) ==
    IF self.dt.month \in self.months THEN << FALSE, self.dt >>
    ELSE << TRUE, CombineMidnight(
                    ScanMonth(<< self.dt.year, self.dt.month, self.dt.day >>, self.months),
                    self.dt.tzinfo) >>

\* the while loop of advance_year, entered with needle.year not in years: it
\* stops at the first later year in years, or at MAX_YEAR, and leaves a needle
\* of MAX_YEAR or later as it is
ScanYear(needle, years) ==
    IF needle[1] >= MAX_YEAR THEN needle
    ELSE << SetMin({y \in years \cup {MAX_YEAR} : y > needle[1]}), 1, 1 >>

\* A faulty advance_year: past the last year self.dt is left as it is
advance_yearKeep(self) ==
    IF self.dt.year \in self.years \/ self.dt.year >= MAX_YEAR THEN self.dt
    ELSE CombineMidnight(
            ScanYear(<< self.dt.year, self.dt.month, self.dt.day >>, self.years),
            self.dt.tzinfo)

\* BaseIterator.advance_year: self.dt
advance_year(self) ==
    IF self.dt.year \in self.years THEN self.dt
    ELSE CombineMidnight(
            ScanYear(<< self.dt.year, self.dt.month, self.dt.day >>, self.years),
            self.dt.tzinfo)

(***************************************************************************)
(* One pass of the `while True` loop of BaseIterator.__next__:             *)
(*   [op |-> "continue", dt]: the loop restarts with self.dt = dt          *)
(*   [op |-> "raise", dt, exc]: the exception leaves the loop              *)
(*   [op |-> "return", dt, value]: value is returned                       *)
(***************************************************************************)
Continue(dt) == [op |-> "continue", dt |-> dt]
Raise(dt, exc) == [op |-> "raise", dt |-> dt, exc |-> exc]
Return(dt, value) == [op |-> "return", dt |-> dt, value |-> value]

\* A faulty restart: continue without self.dt += SECOND
SkipStuck(self, n) == Continue(self.dt)

\* self.dt += SECOND; continue
Skip(self, n) == IF IsError(n) THEN Raise(self.dt, n.exc) ELSE Continue(n)

\* A faulty result: the second occurrence of a repeated wall-clock value
FixupSecond(self, result) ==
    IF is_imaginary(result) THEN Skip(self, AddSeconds(self.dt, 1))
    ELSE Return(self.dt, [result EXCEPT !.fold = 1])

\* A faulty check: the result is returned whether it exists or not
FixupKeep(self, result) == Return(self.dt, result)

\* result = self.dt.replace(tzinfo=self.fixup_tz, fold=0)
Fixup(self, result) ==
    IF is_imaginary(result) THEN Skip(self, AddSeconds(self.dt, 1))
    ELSE Return(self.dt, result)

AfterSecond(self, se) ==
    IF se[1] THEN Continue(se[2])
    ELSE IF self.fixup_tz # "None"
    THEN Fixup(self, [self.dt EXCEPT !.tzinfo = self.fixup_tz, !.fold = 0])
    ELSE Return(self.dt, self.dt)

AfterMinute(self, mi) ==
    IF mi[1] THEN Continue(mi[2]) ELSE AfterSecond(self, advance_second(self))

AfterHour(self, ho) ==
    IF ho[1] THEN Continue(ho[2]) ELSE AfterMinute(self, advance_minute(self))

AfterDay(self, da) ==
    IF da[1] THEN Continue(da[2]) ELSE AfterHour(self, advance_hour(self))

AfterMonth(self, mo) ==
    IF mo[1] THEN Continue(mo[2]) ELSE AfterDay(self, advance_day(self))

AfterYear(self) ==
    IF self.dt.year >= MAX_YEAR THEN Raise(self.dt, "StopIteration")
    ELSE AfterMonth(self, advance_month(self))

LoopBody(self) == AfterYear([self EXCEPT !.dt = advance_year(self)])

(***************************************************************************)
(* TzIterator.                                                             *)
(***************************************************************************)
\* The keys ZoneInfo resolves; every other value raises ZoneInfoNotFoundError
ZoneNames ==
    << << << "U", "T", "C" >>, "UTC" >>,
       << << "E", "u", "r", "o", "p", "e", "/", "R", "i", "g", "a" >>, "Europe/Riga" >>,
       << << "E", "u", "r", "o", "p", "e", "/", "B", "e", "r", "l", "i", "n" >>, "Europe/Berlin" >> >>

\* parse_tz: the ZoneInfo key, or "None"
parse_tz(value) ==
    IF \E k \in 1 .. 11 : (DigitChars \o << "*" >>)[k] = value[1] THEN "None"
    ELSE IF \E i \in 1 .. Len(ZoneNames) : ZoneNames[i][1] = value
    THEN ZoneNames[CHOOSE i \in 1 .. Len(ZoneNames) : ZoneNames[i][1] = value][2]
    ELSE "None"

AwareError == OnCalendarError(<< "Argument 'dt' must be timezone-aware" >>)

\* self.iterator = BaseIterator(expression, start)
TzWrap(local_tz, inner) ==
    IF IsError(inner) THEN inner
    ELSE [local_tz |-> local_tz, iterator |-> inner]

\* expression, start = head, start.astimezone(tz), converted being the latter
TzZone(head, converted, local_tz) ==
    IF IsError(converted) THEN converted
    ELSE TzWrap(local_tz, BaseIterator_init(head, converted))

\* A faulty __init__: the last token is dropped whether it resolves or not
TzPartsDrop(expression, parts, tz, start) == TzZone(parts[1], start, start.tzinfo)

\* TzIterator.__init__ after parse_tz, parts being expression.rsplit(maxsplit=1)
TzParts(expression, parts, tz, start) ==
    TzZone(IF tz # "None" THEN parts[1] ELSE expression,
           IF tz # "None" THEN astimezone(start, tz) ELSE start,
           start.tzinfo)

TzSplit(expression, parts, start) ==
    TzParts(expression, parts,
            IF Len(parts) = 2 THEN parse_tz(parts[2]) ELSE "None", start)

\* TzIterator.__init__ after expression = expression.strip()
TzStripped(expression, start) ==
    TzSplit(expression,
            IF Contains(expression, << " " >>) THEN rsplit1(expression)
            ELSE << expression >>,
            start)

\* TzIterator.__init__: [local_tz, iterator], or the OnCalendarError raised
TzIterator_init(expression, start) ==
    IF start.tzinfo = "None" THEN AwareError
    ELSE TzStripped(strip(expression), start)

\* A faulty __next__: the value is returned in the zone it was matched in
TzIterator_nextRaw(value, local_tz) == value

\* TzIterator.__next__: next(self.iterator).astimezone(self.local_tz)
TzIterator_next(value, local_tz) == astimezone(value, local_tz)

(***************************************************************************)
(* OnCalendar.  The dict self.iterators is a function from the positions   *)
(* of its keys (the TzIterator objects, in insertion order) to its values. *)
(***************************************************************************)
\* the TzIterator objects of the lines of `expressions`, in order, or the
\* first OnCalendarError raised
RECURSIVE BuildIterators(_, _, _)
RECURSIVE BuildNext(_, _, _, _)
BuildNext(exprs, start, built, it) ==
    IF IsError(it) THEN it
    ELSE BuildIterators(Tail(exprs), start, Append(built, it))

BuildIterators(exprs, start, built) ==
    IF exprs = << >> THEN [val |-> built]
    ELSE BuildNext(exprs, start, built, TzIterator_init(Head(exprs), start))

OnCalendarOf(built, start) ==
    IF IsError(built) THEN built
    ELSE [dt        |-> start,
          iterators |-> [i \in 1 .. Len(built.val) |-> start],
          objs      |-> built.val]

\* OnCalendar.__init__: [dt, iterators, objs] or the OnCalendarError raised
OnCalendar_init(expressions, start) ==
    IF start.tzinfo = "None" THEN AwareError
    ELSE OnCalendarOf(BuildIterators(split(strip(expressions), << "\n" >>), start, << >>),
                      start)

\* list(self.iterators.keys()): the keys in insertion order, n keys inserted
RECURSIVE KeyList(_, _)
KeyList(live, n) ==
    IF n = 0 THEN << >>
    ELSE KeyList(live, n - 1) \o (IF n \in live THEN << n >> ELSE << >>)

\* min(values): the first of the smallest values, in the order of the keys
RECURSIVE MinFrom(_, _, _)
MinFrom(iterators, keys, best) ==
    IF keys = << >> THEN best
    ELSE MinFrom(iterators, Tail(keys),
                 IF dt_lt(iterators[Head(keys)], best) THEN iterators[Head(keys)]
                 ELSE best)

MinOver(iterators, keys) == MinFrom(iterators, Tail(keys), iterators[Head(keys)])

\* min(self.iterators.values())
min_values(iterators, n) == MinOver(iterators, KeyList(DOMAIN iterators, n))

\* A faulty del: the entry is kept
DeleteNone(iterators, it) == iterators

\* del self.iterators[it]
Delete(iterators, it) == [k \in (DOMAIN iterators) \ {it} |-> iterators[k]]

(***************************************************************************)
(* The inputs: the classes, expressions and start values the objects are   *)
(* built from.                                                             *)
(***************************************************************************)
Naive(y, mo, d, h, mi, s) == Datetime(y, mo, d, h, mi, s, 0, "None", 0)
Aware(y, mo, d, h, mi, s, tz) == Datetime(y, mo, d, h, mi, s, 0, tz, 0)

BaseExpressions ==
    { << "*", ":", "*", ":", "0", "/", "5" >>,
      << "*", ":", "*" >>,
      << "M", "o", "n", " ", "2", "-", "2", "9" >>,
      << "*", "~", "1" >>,
      << "S", "u", "n", " ", "*", "~", "7", "/", "1" >>,
      << "2", "0", "1", "9", "-", "0", "1", "-", "0", "1" >>,
      << "0", "0", ":", "0", "0" >>,
      << "2", "-", "3", "0" >>,
      << "*", "-", "*", "-", "*", " ", "2", ",", "3", ":", "1", "5", ",", "4", "5", ":", "1", "0", ",", "5", "0" >>,
      << "*", ":", "*", ":", "3", "0" >>,
      << "2", "1", "9", "9", "-", "1", "2", "-", "3", "1", " ", "2", "3", ":", "5", "9", ":", "5", "9" >>,
      << "*", "-", "*", "-", "2", "9", " ", "3", ":", "3", "0" >>,
      << "*", "-", "*", "-", "2", "5", " ", "3", ":", "3", "0" >>,
      << "1", "2", ":", "3", "4", " ", "E", "u", "r", "o", "p", "e", "/", "S", "u", "r", "p", "r", "i", "s", "e" >>,
      << "*", "-", "*", "-", "5", ".", ".", "1" >> }

BaseStarts ==
    { Naive(2020, 1, 1, 0, 0, 0),
      Naive(2020, 1, 1, 1, 0, 0),
      Naive(2020, 2, 29, 3, 45, 50),
      Naive(2199, 12, 31, 23, 59, 58),
      Naive(9999, 12, 31, 23, 59, 59),
      Naive(9999, 12, 31, 23, 59, 58),
      Datetime(2019, 12, 31, 23, 59, 59, 500000, "None", 0),
      Aware(2020, 1, 1, 0, 0, 0, "utc"),
      Aware(2020, 1, 1, 0, 0, 0, "Europe/Riga"),
      Aware(2020, 10, 1, 0, 0, 0, "Europe/Riga"),
      Aware(2020, 3, 29, 2, 59, 59, "Europe/Riga"),
      Datetime(2020, 10, 25, 3, 30, 0, 0, "Europe/Riga", 1) }

TzExpressions ==
    { << "*", ":", "*" >>,
      << "1", "2", ":", "3", "4", " ", "E", "u", "r", "o", "p", "e", "/", "R", "i", "g", "a" >>,
      << "*", "-", "*", "-", "2", "9", " ", "3", ":", "3", "0", " ", "E", "u", "r", "o", "p", "e", "/", "R", "i", "g", "a" >>,
      << "*", ":", "3", "0", " ", "U", "T", "C" >>,
      << " ", "0", "3", ":", "3", "0", " ", "E", "u", "r", "o", "p", "e", "/", "B", "e", "r", "l", "i", "n", " " >>,
      << "1", "2", ":", "3", "4", " ", "E", "u", "r", "o", "p", "e", "/", "S", "u", "r", "p", "r", "i", "s", "e" >>,
      << "2", "0", "1", "9", "-", "0", "1", "-", "0", "1", " ", "U", "T", "C" >>,
      << "M", "o", "n", " ", "2", "-", "2", "9" >>,
      << "1", "2", ":", "3", "4", " ", "a", ":", "b" >>,
      << "M", "o", "n", " ", "2", "-", "2", "9", " ", "x", "-", "y" >>,
      << "*", ":", "*", " ", "u", "t", "c" >> }

TzStarts ==
    { Naive(2020, 1, 1, 0, 0, 0),
      Aware(2020, 1, 1, 0, 0, 0, "utc"),
      Aware(2020, 10, 25, 1, 30, 0, "utc"),
      Aware(2020, 3, 29, 0, 59, 59, "utc"),
      Aware(2020, 3, 28, 12, 0, 0, "Europe/Riga"),
      Aware(2020, 10, 25, 2, 0, 0, "Europe/Riga"),
      Aware(2020, 10, 24, 23, 0, 0, "Europe/Berlin") }

MuxExpressions ==
    { << "1", "2", ":", "3", "4", "\n", "1", "2", ":", "3", "4", " ", "E", "u", "r", "o", "p", "e", "/", "R", "i", "g", "a" >>,
      << "*", ":", "3", "0", " ", "U", "T", "C", "\n", "*", ":", "4", "5", " ", "U", "T", "C" >>,
      << "1", ":", "3", "0", " ", "U", "T", "C", "\n", "3", ":", "3", "0" >>,
      << "2", "0", "1", "9", "-", "0", "1", "-", "0", "1", "\n", "1", "2", ":", "3", "4" >>,
      << "2", "0", "2", "0", "-", "0", "1", "-", "0", "2", " ", "U", "T", "C", "\n", "*", "-", "*", "-", "1", ",", "1", "5", " ", "6", ":", "0", "0", " ", "E", "u", "r", "o", "p", "e", "/", "B", "e", "r", "l", "i", "n" >>,
      << "2", "0", "1", "9", "-", "0", "1", "-", "0", "1" >>,
      << "2", "0", "1", "9", "-", "0", "1", "-", "0", "1", "\n", "2", "0", "1", "8", "-", "0", "1", "-", "0", "1", " ", "U", "T", "C" >>,
      << "1", "2", ":", "3", "4", "\n", "1", "2", ":", "3", "4" >>,
      << "*", ":", "3", "0", "\n", "*", ":", "3", "0", " ", "U", "T", "C" >>,
      << "*", ":", "3", "0", ",", "4", "5", " ", "U", "T", "C", "\n", "1", ":", "3", "0", " ", "U", "T", "C" >>,
      << "1", "2", ":", "3", "4", "\n", "s", "u", "r", "p", "r", "i", "s", "e" >> }

MuxStarts ==
    { Naive(2020, 1, 1, 0, 0, 0),
      Aware(2020, 1, 1, 0, 0, 0, "utc"),
      Aware(2020, 10, 25, 0, 0, 0, "Europe/Riga"),
      Aware(2020, 10, 25, 3, 0, 0, "Europe/Riga"),
      Aware(2020, 10, 25, 3, 31, 0, "Europe/Riga"),
      Aware(2020, 3, 28, 23, 0, 0, "Europe/Berlin") }

Cases ==
    ({"BaseIterator"} \X BaseExpressions \X BaseStarts)
        \cup ({"TzIterator"} \X TzExpressions \X TzStarts)
        \cup ({"OnCalendar"} \X MuxExpressions \X MuxStarts)

(***************************************************************************)
(* The state machine: one object of class `kind` is constructed from       *)
(* (expression, start) and its __next__ is called up to MaxCalls times.    *)
(* A call runs the `while True` loop of BaseIterator.__next__ one pass per *)
(* step, and the `for` loop of OnCalendar.__next__ one key per step.       *)
(***************************************************************************)
VARIABLES
    kind,        \* the class constructed: "BaseIterator", "TzIterator", "OnCalendar"
    expression,  \* the constructor's first argument
    start,       \* the constructor's second argument
    pc,          \* "new", "raised" (the constructor raised), "idle", "for", "loop"
    iterator,    \* the BaseIterator objects: the one constructed, or
                 \* TzIterator.iterator of each TzIterator, in order
    local_tz,    \* TzIterator.local_tz of each TzIterator
    oc,          \* OnCalendar: [dt |-> self.dt, iterators |-> self.iterators]
    keys,        \* OnCalendar.__next__: the keys the for loop has yet to visit
    cur,         \* the BaseIterator whose __next__ is running
    cursor,      \* self.dt of that iterator when its __next__ was entered
    result,      \* how the last call on the object ended
    last,        \* how the last BaseIterator.__next__ ended: the iterator, its
                 \* self.dt on entry, and the value returned or the exception
    calls,       \* history: the number of __next__ calls made on the object
    out,         \* history: the values the object's __next__ returned, in order
    produced,    \* history: per iterator, the values its __next__ returned
                 \* (TzIterator.__next__ where there is a TzIterator)
    ended,       \* history: the iterators whose __next__ raised StopIteration
    passes       \* history: the passes the loop of the last BaseIterator.__next__
                 \* has made

vars == << kind, expression, start, pc, iterator, local_tz, oc, keys, cur, cursor,
           result, last, calls, out, produced, ended, passes >>

MaxCalls == 8

Returned(v) == [op |-> "return", value |-> v]
Raised(e) == [op |-> "raise", exc |-> e]
NoResult == [op |-> "none"]

Init ==
    /\ \E c \in Cases : kind = c[1] /\ expression = c[2] /\ start = c[3]
    /\ pc = "new"
    /\ iterator = << >>
    /\ local_tz = << >>
    /\ oc = [dt |-> start, iterators |-> << >>]
    /\ keys = << >>
    /\ cur = 0
    /\ cursor = start
    /\ result = NoResult
    /\ last = NoResult
    /\ calls = 0
    /\ out = << >>
    /\ produced = << >>
    /\ ended = {}
    /\ passes = 0

\* cls(expression, start)
New(cls, expr, dt) ==
    CASE cls = "BaseIterator" -> BaseIterator_init(expr, dt)
      [] cls = "TzIterator" -> TzIterator_init(expr, dt)
      [] cls = "OnCalendar" -> OnCalendar_init(expr, dt)

\* the BaseIterator objects of the object r constructed
IteratorsOf(r) ==
    CASE kind = "BaseIterator" -> << r >>
      [] kind = "TzIterator" -> << r.iterator >>
      [] kind = "OnCalendar" -> [i \in 1 .. Len(r.objs) |-> r.objs[i].iterator]

LocalTzOf(r) ==
    CASE kind = "BaseIterator" -> << >>
      [] kind = "TzIterator" -> << r.local_tz >>
      [] kind = "OnCalendar" -> [i \in 1 .. Len(r.objs) |-> r.objs[i].local_tz]

Constructed(r) ==
    IF IsError(r)
    THEN /\ pc' = "raised"
         /\ result' = r
         /\ UNCHANGED << iterator, local_tz, oc, produced >>
    ELSE /\ pc' = "idle"
         /\ result' = result
         /\ iterator' = IteratorsOf(r)
         /\ local_tz' = LocalTzOf(r)
         /\ oc' = IF kind = "OnCalendar"
                  THEN [dt |-> r.dt, iterators |-> r.iterators] ELSE oc
         /\ produced' = [i \in 1 .. Len(iterator') |-> << >>]

\* BaseIterator(expression, start), TzIterator(...) or OnCalendar(...)
Construct ==
    /\ pc = "new"
    /\ Constructed(New(kind, expression, start))
    /\ UNCHANGED << kind, expression, start, keys, cur, cursor, last, calls, out, ended,
                    passes >>

\* A faulty first statement of __next__: self.dt is left as it is
NextSecondSame(dt) == dt

\* self.dt += SECOND
NextSecond(dt) == AddSeconds(dt, 1)

\* The first statement of BaseIterator.__next__ on iterator i: the loop is
\* entered, or OverflowError leaves the call
Begun(i, n) ==
    /\ cursor' = iterator[i].dt
    /\ cur' = i
    /\ passes' = 0
    /\ IF IsError(n)
       THEN /\ pc' = "idle"
            /\ result' = Raised(n.exc)
            /\ last' = [op |-> "raise", it |-> i, cursor |-> iterator[i].dt,
                         value |-> iterator[i].dt, exc |-> n.exc]
            /\ iterator' = iterator
       ELSE /\ pc' = "loop"
            /\ iterator' = [iterator EXCEPT ![i].dt = n]
            /\ UNCHANGED << result, last >>

BeginNext(i) == Begun(i, NextSecond(iterator[i].dt))

\* The caller calls next() on the object
Call ==
    /\ pc = "idle"
    /\ calls < MaxCalls
    /\ calls' = calls + 1
    /\ IF kind = "OnCalendar"
       THEN /\ pc' = "for"
            /\ keys' = KeyList(DOMAIN oc.iterators, Len(iterator))
            /\ UNCHANGED << iterator, cur, cursor, result, last, passes >>
       ELSE /\ BeginNext(1)
            /\ keys' = keys
    /\ UNCHANGED << kind, expression, start, local_tz, oc, out, produced, ended >>

\* OnCalendar.__next__ after the for loop
Merged(m) ==
    /\ oc' = [oc EXCEPT !.dt = m]
    /\ result' = Returned(m)
    /\ out' = Append(out, m)

\* OnCalendar.__next__: one key of the for loop, or the statements after it
ForStep ==
    /\ pc = "for"
    /\ IF keys = << >>
       THEN /\ pc' = "idle"
            /\ IF DOMAIN oc.iterators = {}
               THEN /\ result' = Raised("StopIteration")
                    /\ UNCHANGED << oc, out >>
               ELSE Merged(min_values(oc.iterators, Len(iterator)))
            /\ UNCHANGED << iterator, keys, cur, cursor, last, passes >>
       ELSE IF dt_lt(oc.dt, oc.iterators[Head(keys)])
       THEN /\ keys' = Tail(keys)
            /\ UNCHANGED << pc, iterator, oc, cur, cursor, result, last, out, passes >>
       ELSE /\ BeginNext(Head(keys))
            /\ UNCHANGED << keys, oc, out >>
    /\ UNCHANGED << kind, expression, start, local_tz, calls, produced, ended >>

\* The pass r left the loop of BaseIterator.__next__, v being the value the
\* caller gets: the rest of TzIterator.__next__ and of OnCalendar.__next__
Left(r, v) ==
    /\ last' = [op |-> r.op, it |-> cur, cursor |-> cursor,
                value |-> IF r.op = "return" THEN r.value ELSE r.dt,
                exc |-> IF r.op = "raise" THEN r.exc ELSE "None"]
    /\ produced' = IF r.op = "return" THEN [produced EXCEPT ![cur] = Append(@, v)]
                   ELSE produced
    /\ ended' = IF r.op = "raise" /\ r.exc = "StopIteration"
                THEN ended \cup {cur} ELSE ended
    /\ IF kind # "OnCalendar"
       THEN /\ pc' = "idle"
            /\ result' = IF r.op = "return" THEN Returned(v) ELSE Raised(r.exc)
            /\ out' = IF r.op = "return" THEN Append(out, v) ELSE out
            /\ UNCHANGED << oc, keys >>
       ELSE IF r.op = "return"
       THEN /\ pc' = "for"
            /\ oc' = [oc EXCEPT !.iterators[cur] = v]
            /\ keys' = Tail(keys)
            /\ UNCHANGED << result, out >>
       ELSE IF r.exc = "StopIteration"
       THEN /\ pc' = "for"
            /\ oc' = [oc EXCEPT !.iterators = Delete(oc.iterators, cur)]
            /\ keys' = Tail(keys)
            /\ UNCHANGED << result, out >>
       ELSE /\ pc' = "idle"
            /\ result' = Raised(r.exc)
            /\ UNCHANGED << oc, keys, out >>

\* One pass r of the loop
Passed(r) ==
    /\ iterator' = [iterator EXCEPT ![cur].dt = r.dt]
    /\ passes' = passes + 1
    /\ IF r.op = "continue"
       THEN UNCHANGED << pc, oc, keys, result, last, out, produced, ended >>
       ELSE Left(r, IF r.op # "return" THEN r.dt
                    ELSE IF kind = "BaseIterator" THEN r.value
                    ELSE TzIterator_next(r.value, local_tz[cur]))

\* One pass of the loop of BaseIterator.__next__ on iterator cur and, when the
\* pass leaves the loop, the rest of the callers
LoopStep ==
    /\ pc = "loop"
    /\ Passed(LoopBody(iterator[cur]))
    /\ UNCHANGED << kind, expression, start, local_tz, cur, cursor, calls >>

Next == Construct \/ Call \/ ForStep \/ LoopStep

Spec == Init /\ [][Next]_vars


(***************************************************************************)
(* Field.parse on its own: a field parses one string.  The strings are     *)
(* written from values at and around the ends of the field's range, as a   *)
(* value, an interval, a value with a step, an interval with a step and a  *)
(* list, each also with the `~` prefix for the day of the month.  In this  *)
(* specification `cur` is the field (self), `expression` the string s and  *)
(* `result` what Field.parse returned or raised.                           *)
(***************************************************************************)
\* str(n) for n >= 0
RECURSIVE Dec(_)
Dec(n) ==
    IF n < 10 THEN << DigitChars[n + 1] >>
    ELSE Dec(n \div 10) \o << DigitChars[(n % 10) + 1] >>

ParseFields == {DOW, YEAR, MONTH, DAY, HOUR, MINUTE, SECOND}

ParseValues(field) ==
    CASE field = DOW -> {0, 3, 6}
      [] field = YEAR -> {69, 70, 1970, 2100, 2199, 2200}
      [] field = MONTH -> {1, 6, 12, 13}
      [] field = DAY -> {1, 3, 7, 28, 29, 31, 32}
      [] field = HOUR -> {0, 5, 23, 24}
      [] field = MINUTE -> {0, 10, 59, 60}
      [] field = SECOND -> {0, 59}

ParseSteps == {0, 1, 2, 10}

\* How a value of the field is written: a weekday by its short name
ValueText(field, a) == IF field = DOW THEN SYMBOLIC_DAYS_SHORT[a + 1] ELSE Dec(a)

IntervalText(field, a, b) == ValueText(field, a) \o << ".", "." >> \o ValueText(field, b)

StepText(text, n) == text \o << "/" >> \o Dec(n)

ListText(field, a, b) == ValueText(field, a) \o << "," >> \o ValueText(field, b)

PlainTexts(field) ==
    {ValueText(field, a) : a \in ParseValues(field)}
        \cup {IntervalText(field, a, b) : a \in ParseValues(field), b \in ParseValues(field)}
        \cup {ListText(field, a, b) : a \in ParseValues(field), b \in ParseValues(field)}

\* A `*` inside a comma list, an interval or a step
StarTexts(field) ==
    UNION {{ << "*", "," >> \o ValueText(field, a), ValueText(field, a) \o << ",", "*" >>,
             << "*", ".", "." >> \o ValueText(field, a), ValueText(field, a) \o << ".", ".", "*" >>,
             ValueText(field, a) \o << "/", "*" >> } : a \in ParseValues(field)}
        \cup {StepText(<< "*" >>, n) : n \in ParseSteps}
        \cup { << "*", ",", "*" >>, << "*", ".", ".", "*" >>, << "*", "*" >> }

ParseTexts(field) ==
    PlainTexts(field)
        \cup {StepText(t, n) : t \in PlainTexts(field), n \in ParseSteps}
        \cup StarTexts(field)
        \cup { << >>, << "*" >>, << "*", "/", "2" >>, << "1", "_", "0" >>,
               << "M", "o", "n", "-", "F", "r", "i" >>, << "s", "u", "n", "," >> }

\* Year literals: the values at the ends of the ranges that Field.int tells
\* apart, written with up to two leading zeros, and a literal of more digits
\* than int() converts
YearValues == {0, 1, 69, 70, 99, 100, 999, 1969, 1970, 2000, 2199, 2200, 9999, 100000}

Zeros(z) == [i \in 1 .. z |-> "0"]

LongLiteral == [i \in 1 .. (MaxStrDigits + 1) |-> "9"]

YearLiterals == {Zeros(z) \o Dec(v) : z \in 0 .. 2, v \in YearValues} \cup {LongLiteral}

\* The strings handed to the field: the day of the month also takes them
\* with the `~` prefix
ParseCases ==
    {<< f, t >> : f \in {DAY}, t \in {<< "~" >> \o x : x \in ParseTexts(DAY)}}
        \cup {<< f, t >> : f \in {YEAR}, t \in YearLiterals}
        \cup UNION {{<< f, t >> : t \in ParseTexts(f)} : f \in ParseFields}

ParseInit ==
    /\ kind = "Field.parse"
    /\ \E c \in ParseCases : cur = c[1] /\ expression = c[2]
    /\ start = Naive(2020, 1, 1, 0, 0, 0)
    /\ pc = "new"
    /\ iterator = << >>
    /\ local_tz = << >>
    /\ oc = [dt |-> start, iterators |-> << >>]
    /\ keys = << >>
    /\ cursor = start
    /\ result = NoResult
    /\ last = NoResult
    /\ calls = 0
    /\ out = << >>
    /\ produced = << >>
    /\ ended = {}
    /\ passes = 0

\* self.parse(s): result is [val |-> the set returned] or the exception raised
Parse ==
    /\ kind = "Field.parse"
    /\ pc = "new"
    /\ pc' = "idle"
    /\ result' = Field_parse(cur, expression, FALSE)
    /\ UNCHANGED << kind, expression, start, iterator, local_tz, oc, keys, cur, cursor,
                    last, calls, out, produced, ended, passes >>

ParseNext == Parse

ParseSpec == ParseInit /\ [][ParseNext]_vars


(***************************************************************************)
(* BaseIterator.__init__ on its own: the expressions are written from a    *)
(* weekday token, a date token and a time token, each of which may be      *)
(* absent, and from a token too many before or after them.  A case is      *)
(* << lead, w, d, t, trail >>: w the weekday token, d the parts of the     *)
(* date token, t the parts of the time token, lead and trail the tokens    *)
(* too many; << >> stands for an absent one.                               *)
(***************************************************************************)
Lo(field) == SetMin(ParseValues(field) \cap RANGES(field))
Hi(field) == SetMax(ParseValues(field) \cap RANGES(field))

\* Parts that parse: `*` (a name for the weekday), a value, a value with a step
GoodParts(field) ==
    IF field = DOW
    THEN { << "M", "o", "n" >>, IntervalText(DOW, Lo(DOW), Hi(DOW)),
           << "s", "a", "t", ",", "s", "u", "n" >> }
    ELSE { << "*" >>, ValueText(field, Lo(field)), StepText(ValueText(field, Lo(field)), 2) }

\* Parts with an interval that ends before it starts, or with a step of 0
LopsidedParts(field) == { IntervalText(field, Hi(field), Lo(field)) }

ZeroStepParts(field) ==
    { StepText(ValueText(field, Lo(field)), 0),
      StepText(IntervalText(field, Lo(field), Hi(field)), 0) }

BadParts(field) == LopsidedParts(field) \cup ZeroStepParts(field)

Star == << "*" >>

WeekdayTokens == {<< >>} \cup GoodParts(DOW) \cup BadParts(DOW) \cup {Star}

TimeTokens ==
    {<< >>, << << "1" >>, << "2" >>, << "3" >>, << "4" >> >>}
        \cup {<< h, m >> : h \in GoodParts(HOUR), m \in GoodParts(MINUTE)}
        \cup {<< Star, Star, s >> : s \in GoodParts(SECOND)}
        \cup {<< h, Star, Star >> : h \in BadParts(HOUR)}
        \cup {<< Star, m, Star >> : m \in BadParts(MINUTE)}
        \cup {<< Star, Star, s >> : s \in BadParts(SECOND)}
        \cup {<< Star, m >> : m \in BadParts(MINUTE)}

DateTokens ==
    {<< >>, << << "1" >>, << "2" >>, << "3" >>, << "4" >> >>}
        \cup {<< m, d >> : m \in GoodParts(MONTH), d \in GoodParts(DAY)}
        \cup {<< y, Star, Star >> : y \in GoodParts(YEAR)}
        \cup {<< y, Star, Star >> : y \in BadParts(YEAR)}
        \cup {<< Star, m, Star >> : m \in BadParts(MONTH)}
        \cup {<< Star, Star, d >> : d \in BadParts(DAY)}
        \cup {<< Star, d >> : d \in BadParts(DAY)}
        \cup {<< Star, << "~" >> \o d >> :
                 d \in {ValueText(DAY, Lo(DAY))} \cup BadParts(DAY)}

\* parts joined by sep; a part that starts with `~` carries its own separator
RECURSIVE JoinParts(_, _)
JoinParts(parts, sep) ==
    IF Len(parts) = 0 THEN << >>
    ELSE IF Len(parts) = 1 THEN parts[1]
    ELSE parts[1]
            \o (IF Len(parts[2]) > 0 /\ parts[2][1] = "~" THEN << >> ELSE sep)
            \o JoinParts(Tail(parts), sep)

\* the tokens present, separated by one space
RECURSIVE JoinTokens(_)
JoinTokens(tokens) ==
    IF Len(tokens) = 0 THEN << >>
    ELSE IF Head(tokens) = << >> THEN JoinTokens(Tail(tokens))
    ELSE IF JoinTokens(Tail(tokens)) = << >> THEN Head(tokens)
    ELSE Head(tokens) \o << " " >> \o JoinTokens(Tail(tokens))

ExpressionText(c) ==
    JoinTokens(<< c[1], c[2], JoinParts(c[3], << "-" >>), JoinParts(c[4], << ":" >>), c[5] >>)

LeadTokens == { << "T", "u", "e" >>, << "x" >> }
TrailTokens == { << "s", "u", "r", "p", "r", "i", "s", "e" >> }

\* The expressions with no token too many
ExactCases == {<< >>} \X WeekdayTokens \X DateTokens \X TimeTokens \X {<< >>}

\* The expressions with a token too many
SurplusCases ==
    (LeadTokens \cup {<< >>}) \X WeekdayTokens
        \X {<< >>, << Star, Star >>, << Star, Star, ValueText(DAY, 32) >>}
        \X {<< >>, << Star, Star >>, << Star, << "6", "0" >> >>}
        \X (TrailTokens \cup {<< >>})

ConstructCases == ExactCases \cup SurplusCases

\* The case of no token at all, also written as white space only
NoTokens == << << >>, << >>, << >>, << >>, << >> >>

ConstructTable ==
    {<< ExpressionText(c), c >> : c \in ConstructCases}
        \cup {<< << " ", " ", " " >>, NoTokens >>}

ConstructInit ==
    /\ kind = "BaseIterator"
    /\ \E r \in ConstructTable : expression = r[1]
    /\ start \in {Naive(2020, 1, 1, 0, 0, 0), Aware(2020, 1, 1, 0, 0, 0, "Europe/Riga")}
    /\ pc = "new"
    /\ iterator = << >>
    /\ local_tz = << >>
    /\ oc = [dt |-> start, iterators |-> << >>]
    /\ keys = << >>
    /\ cur = 0
    /\ cursor = start
    /\ result = NoResult
    /\ last = NoResult
    /\ calls = 0
    /\ out = << >>
    /\ produced = << >>
    /\ ended = {}
    /\ passes = 0

ConstructNext == Construct

ConstructSpec == ConstructInit /\ [][ConstructNext]_vars


(***************************************************************************)
(* Properties.                                                             *)
(***************************************************************************)
\* The absolute instant of a datetime: its UTC instant when it is aware, its
\* wall-clock fields when it is naive
AbsKey(dt) == IF dt.tzinfo = "None" THEN NaiveKey(dt) ELSE Instant(dt)

Increasing(seq) ==
    \A k \in 1 .. (Len(seq) - 1) : KeyLess(AbsKey(seq[k]), AbsKey(seq[k + 1]))

\* What an expression asks of a date and of a time of day, read off the sets
\* the constructor parsed
DayMatches(days, y, m, d) == d \in days \/ (d - DaysInMonth(y, m) - 1) \in days

DateMatches(self, y, m, d) ==
    /\ y \in self.years
    /\ m \in self.months
    /\ d <= DaysInMonth(y, m)
    /\ DayMatches(self.days, y, m, d)
    /\ Weekday(y, m, d) \in self.weekdays

Matches(self, v) ==
    /\ DateMatches(self, v.year, v.month, v.day)
    /\ v.hour \in self.hours
    /\ v.minute \in self.minutes
    /\ v.second \in self.seconds

\* Whether wall-clock value (day n, second t) exists in the zone the iterator
\* returns its values in
Real(self, n, t) ==
    \/ ~HasDst(self.fixup_tz)
    \/ ~is_imaginary(DatetimeAt(FromOrdinal(n), t, 0, self.fixup_tz, 0))

\* A time of day of day n the expression matches, strictly between lo and hi
TimeMatch(self, n, lo, hi) ==
    \E h \in self.hours : \E mi \in self.minutes : \E s \in self.seconds :
        /\ lo < (h * 3600) + (mi * 60) + s
        /\ (h * 3600) + (mi * 60) + s < hi
        /\ Real(self, n, (h * 3600) + (mi * 60) + s)

\* day n lies in the window from a to b, and holds a matching time in it
InWindow(self, n, a, b) ==
    /\ a[1] <= n
    /\ n <= b[1]
    /\ TimeMatch(self, n, IF n = a[1] THEN a[2] ELSE 0 - 1,
                          IF n = b[1] THEN b[2] ELSE 86400)

\* An instant the expression matches lies strictly between the wall-clock
\* values a and b, each a <<day, second>> pair
ExistsMatch(self, a, b) ==
    \E y \in self.years \cap (FromOrdinal(a[1])[1] .. FromOrdinal(b[1])[1]) :
        \E m \in self.months : \E d \in 1 .. 31 :
            /\ DateMatches(self, y, m, d)
            /\ InWindow(self, ToOrdinal(y, m, d), a, b)

\* 2200-01-01 00:00:00
Horizon == << ToOrdinal(MAX_YEAR, 1, 1), 0 >>

\* A call of __next__ on the object constructed has ended
CallEnded == pc = "idle" /\ calls > 0

EndOfSequence(r) == r.op = "raise" /\ r.exc = "StopIteration"

\* C1: the values successive calls of __next__ return on a BaseIterator or a
\* TzIterator are strictly increasing as absolute instants
C1_StrictlyIncreasing ==
    kind \in {"BaseIterator", "TzIterator"} => Increasing(out)

C1_Witness ==
    /\ kind \in {"BaseIterator", "TzIterator"}
    /\ Len(out) >= 2
    /\ HasDst(out[2].tzinfo)
    /\ utcoffset(out[1]) # utcoffset(out[2])

\* C2: the first value a BaseIterator or a TzIterator returns is strictly
\* later, as an absolute instant, than the start it was constructed from
C2_FirstAfterStart ==
    (kind \in {"BaseIterator", "TzIterator"} /\ out # << >>)
        => KeyLess(AbsKey(start), AbsKey(out[1]))

\* The start is the second occurrence of a repeated wall-clock value and the
\* first value returned is not later than it
C2_Witness ==
    /\ kind \in {"BaseIterator", "TzIterator"}
    /\ out # << >>
    /\ start.fold = 1
    /\ ~KeyLess(AbsKey(start), AbsKey(out[1]))

\* C3: every value BaseIterator.__next__ returns satisfies all the constraints
\* of the expression at once, read as wall-clock fields
C3_ResultMatches ==
    last.op = "return" => Matches(iterator[last.it], last.value)

C3_Witness ==
    /\ last.op = "return"
    /\ iterator[last.it].weekdays = {0}
    /\ iterator[last.it].days = {29}
    /\ last.value.year > last.cursor.year

\* C4: for a naive or UTC start, no instant the expression matches lies
\* strictly between self.dt on entry of __next__ (the start, or the value
\* returned before) and the value returned
C4_NoSkip ==
    (last.op = "return" /\ ~HasDst(iterator[last.it].fixup_tz))
        => ~ExistsMatch(iterator[last.it], Wall(last.cursor), Wall(last.value))

\* A value returned after the hour, minute and second scans each rolled over
C4_Witness ==
    /\ last.op = "return"
    /\ ~HasDst(iterator[last.it].fixup_tz)
    /\ Cardinality(iterator[last.it].hours) = 2
    /\ last.value.day # last.cursor.day

\* C5: every call of BaseIterator.__next__ leaves its loop after finitely many
\* passes: a pass that restarts the loop began before the horizon year and
\* leaves self.dt strictly later than it found it, and no later than the
\* horizon year
C5_Terminates ==
    [][(pc = "loop" /\ pc' = "loop") =>
          /\ iterator[cur].dt.year < MAX_YEAR
          /\ iterator'[cur].dt.year <= MAX_YEAR
          /\ KeyLess(NaiveKey(iterator[cur].dt), NaiveKey(iterator'[cur].dt))]_vars

\* End-of-sequence, after more than a hundred passes, for an expression every
\* year of which is allowed and no date of which exists
C5_Witness ==
    /\ EndOfSequence(last)
    /\ passes > 100
    /\ iterator[last.it].years = RANGES(YEAR)
    /\ ~ExistsMatch(iterator[last.it], Wall(last.cursor), Horizon)

\* C6: no value returned has a year of 2200 or later, and a call signals
\* end-of-sequence exactly when no instant matching the expression exists
\* after self.dt on entry and before 2200-01-01
C6_Horizon ==
    /\ last.op = "return" => last.value.year < MAX_YEAR
    /\ last.op # "none" =>
          (EndOfSequence(last)
              <=> ~ExistsMatch(iterator[last.it], Wall(last.cursor), Horizon))

\* No matching instant exists, and the call raised something else
C6_Witness ==
    /\ last.op = "raise"
    /\ last.exc # "StopIteration"
    /\ ~ExistsMatch(iterator[last.it], Wall(last.cursor), Horizon)

\* C7: after a successful construction a call of __next__ either returns a
\* value or signals end-of-sequence
C7_NeverFails ==
    CallEnded => (result.op = "return" \/ EndOfSequence(result))

C7_Witness == CallEnded /\ result.op = "raise" /\ result.exc = "OverflowError"

\* C8: the values successive calls of OnCalendar.__next__ return are strictly
\* increasing as absolute instants
C8_MuxIncreasing == kind = "OnCalendar" => Increasing(out)

\* A value returned is earlier than the one returned before it
C8_Witness ==
    /\ kind = "OnCalendar"
    /\ \E k \in 1 .. (Len(out) - 1) : KeyLess(AbsKey(out[k + 1]), AbsKey(out[k]))

\* C9: OnCalendar returns the ordered union of what its TzIterators return:
\* each value it returns is one of theirs, and a value of theirs is returned
\* before the TzIterator it came from is asked for its next one
C9_OrderedUnion ==
    (kind = "OnCalendar" /\ pc = "idle") =>
        /\ \A k \in 1 .. Len(out) :
              \E i \in 1 .. Len(produced) : \E j \in 1 .. Len(produced[i]) :
                  produced[i][j] = out[k]
        /\ \A i \in 1 .. Len(produced) : \A j \in 1 .. (Len(produced[i]) - 1) :
              \E k \in 1 .. Len(out) : AbsKey(out[k]) = AbsKey(produced[i][j])

\* A value of a TzIterator was replaced by its next one and never returned
C9_Witness ==
    /\ kind = "OnCalendar"
    /\ pc = "idle"
    /\ \E i \in 1 .. Len(produced) : \E j \in 1 .. (Len(produced[i]) - 1) :
          \A k \in 1 .. Len(out) : AbsKey(out[k]) # AbsKey(produced[i][j])

\* C10: the keys of self.iterators are the TzIterators that have not signalled
\* end-of-sequence, one that has is not asked again, and OnCalendar.__next__
\* signals end-of-sequence exactly when none is left
C10_Removal ==
    kind = "OnCalendar" =>
        /\ DOMAIN oc.iterators = (1 .. Len(iterator)) \ ended
        /\ pc = "loop" => cur \notin ended
        /\ CallEnded => (EndOfSequence(result) <=> ended = 1 .. Len(iterator))
        /\ (CallEnded /\ result.op = "return") =>
              \E i \in DOMAIN oc.iterators : oc.iterators[i] = result.value

\* One TzIterator has ended and a later call returned a value of another
C10_Witness ==
    /\ kind = "OnCalendar"
    /\ CallEnded
    /\ calls >= 2
    /\ ended # {}
    /\ result.op = "return"

(***************************************************************************)
(* Properties of the DST handling.                                         *)
(***************************************************************************)
\* The local wall-clock value at which the zone of dt leaves (month 3) or
\* re-enters (month 10) standard time in the year of dt, as the clock reads
\* just before the transition plus `shift`
LocalTransition(dt, m, shift) ==
    Norm(TransitionUtc(dt.year, m)[1],
         TransitionUtc(dt.year, m)[2] + StdOffset(dt.tzinfo) + shift)

\* The wall-clock value of dt lies in the hour its zone skips in spring
InGap(dt) ==
    /\ HasDst(dt.tzinfo)
    /\ PairLeq(LocalTransition(dt, 3, 0), Wall(dt))
    /\ PairLess(Wall(dt), LocalTransition(dt, 3, 3600))

\* The wall-clock value of dt lies in the hour its zone repeats in autumn
InRepeat(dt) ==
    /\ HasDst(dt.tzinfo)
    /\ PairLeq(LocalTransition(dt, 10, 0), Wall(dt))
    /\ PairLess(Wall(dt), LocalTransition(dt, 10, 3600))

\* 03:30 of the day the clocks of Europe/Riga sprang forward in 2020
SkippedHalfPastThree(tz) == Datetime(2020, 3, 29, 3, 30, 0, 0, tz, 0)

\* C11: for a start in a zone with DST, a value BaseIterator.__next__ returns
\* is never inside the hour skipped in spring; it matches the expression as it
\* stands (a candidate in that hour is discarded, not shifted), and no
\* matching wall-clock value that exists was passed over on the way to it
C11_NoImaginary ==
    (last.op = "return" /\ HasDst(iterator[last.it].fixup_tz)) =>
        /\ ~InGap(last.value)
        /\ ~is_imaginary(last.value)
        /\ Matches(iterator[last.it], last.value)
        /\ ~ExistsMatch(iterator[last.it], Wall(last.cursor), Wall(last.value))

\* A value returned after the matching candidate 2020-03-29 03:30 in
\* Europe/Riga, which the transition skips, was passed
C11_Witness ==
    /\ last.op = "return"
    /\ iterator[last.it].fixup_tz = "Europe/Riga"
    /\ Matches(iterator[last.it], SkippedHalfPastThree("Europe/Riga"))
    /\ InGap(SkippedHalfPastThree("Europe/Riga"))
    /\ PairLess(Wall(last.cursor), Wall(SkippedHalfPastThree("Europe/Riga")))
    /\ PairLess(Wall(SkippedHalfPastThree("Europe/Riga")), Wall(last.value))

\* BaseIterator("*-*-29 3:30", datetime(2020, 1, 1, tzinfo=ZoneInfo("Europe/Riga")))
SpringCase ==
    /\ kind = "BaseIterator"
    /\ expression = << "*", "-", "*", "-", "2", "9", " ", "3", ":", "3", "0" >>
    /\ start = Aware(2020, 1, 1, 0, 0, 0, "Europe/Riga")

\* The first month after month m of year y that has a 29th, as <<year, month>>
NextMonthWith29(y, m) ==
    IF m = 12 THEN << y + 1, 1 >>
    ELSE IF m = 1 /\ ~IsLeap(y) THEN << y, 3 >>
    ELSE << y, m + 1 >>

HalfPastThreeOn29(ym, tz) == Datetime(ym[1], ym[2], 29, 3, 30, 0, 0, tz, 0)

\* The first month after month m of year y with a 29th whose 03:30 exists in
\* zone tz
NextReal29(ym, tz) ==
    IF InGap(HalfPastThreeOn29(NextMonthWith29(ym[1], ym[2]), tz))
    THEN NextMonthWith29(NextMonthWith29(ym[1], ym[2])[1],
                         NextMonthWith29(ym[1], ym[2])[2])
    ELSE NextMonthWith29(ym[1], ym[2])

\* Each value of seq is 03:30:00 of a 29th, the first in January 2020
AllOn29(seq) ==
    /\ \A k \in 1 .. Len(seq) :
          /\ seq[k].day = 29
          /\ SecondOfDay(seq[k]) = (3 * 3600) + (30 * 60)
    /\ seq # << >> => (seq[1].year = 2020 /\ seq[1].month = 1)

\* The offset of Europe/Riga in 2020: +03:00 from 29 March to 25 October
RigaOffsets2020(seq) ==
    \A k \in 1 .. Len(seq) :
        seq[k].year = 2020 =>
            utcoffset(seq[k]) = (IF seq[k].month \in 4 .. 9 THEN 10800 ELSE 7200)

WallIncreasing(seq) ==
    \A k \in 1 .. (Len(seq) - 1) : PairLess(Wall(seq[k]), Wall(seq[k + 1]))

C14_RepeatsRepeatedHour ==
    kind = "BaseIterator" =>
        \A k \in 1 .. (Len(out) - 1) :
            (InRepeat(out[k]) /\ out[k].fold = 0) =>
                /\ Wall(out[k + 1]) = Wall(out[k])
                /\ out[k + 1].fold = 1
                /\ utcoffset(out[k + 1]) = StdOffset(out[k].tzinfo)

\* A value of the repeated hour was followed by another wall-clock value
C14_Witness ==
    /\ kind = "BaseIterator"
    /\ \E k \in 1 .. (Len(out) - 1) :
          /\ InRepeat(out[k])
          /\ out[k].fold = 0
          /\ Wall(out[k + 1]) # Wall(out[k])

(***************************************************************************)
(* Properties of TzIterator.                                               *)
(***************************************************************************)
\* The last whitespace-separated token of a TzIterator expression of two
\* tokens or more, << >> when there is just one
LastToken(e) ==
    IF Contains(strip(e), << " " >>) THEN rsplit1(strip(e))[2] ELSE << >>

\* The zone the last token of the expression resolves to, "None" without one
EmbeddedZone(e) == IF LastToken(e) = << >> THEN "None" ELSE parse_tz(LastToken(e))

\* The naive wall-clock value dt, read in zone tz, is the instant of `aware`
SameInstantIn(dt, tz, aware) ==
    \E f \in {0, 1} :
        Instant([dt EXCEPT !.tzinfo = tz, !.fold = f])
            = Instant([aware EXCEPT !.microsecond = 0])

\* C15: when the last token of a TzIterator expression resolves to a zone,
\* the inner iterator starts from the start converted into that zone and
\* matches the fields against wall-clock time in that zone, and every value
\* returned is the inner iterator's instant expressed in the zone of the start
C15_EmbeddedZone ==
    (kind = "TzIterator" /\ pc \notin {"new", "raised"}
        /\ EmbeddedZone(expression) # "None") =>
        /\ iterator[1].fixup_tz = EmbeddedZone(expression)
        /\ local_tz[1] = start.tzinfo
        /\ calls = 0 => SameInstantIn(iterator[1].dt, EmbeddedZone(expression), start)
        /\ (CallEnded /\ result.op = "return") =>
              /\ last.value.tzinfo = EmbeddedZone(expression)
              /\ Matches(iterator[1], last.value)
              /\ result.value.tzinfo = start.tzinfo
              /\ Instant(result.value) = Instant(last.value)

\* A value matched in Europe/Riga was returned in another zone, at another
\* wall-clock time
C15_Witness ==
    /\ kind = "TzIterator"
    /\ CallEnded
    /\ result.op = "return"
    /\ EmbeddedZone(expression) = "Europe/Riga"
    /\ start.tzinfo # "Europe/Riga"
    /\ Wall(result.value) # Wall(last.value)

\* The expression has two tokens or more, and the last neither starts with a
\* digit or `*` nor resolves to a zone
Unresolvable(e) ==
    /\ LastToken(e) # << >>
    /\ \A k \in 1 .. 11 : (DigitChars \o << "*" >>)[k] # LastToken(e)[1]
    /\ parse_tz(LastToken(e)) = "None"

\* C16: a TzIterator expression whose last token is unresolvable is handed
\* whole to BaseIterator, and the construction raises OnCalendarError
C16_BadZoneFails ==
    (kind = "TzIterator" /\ pc # "new" /\ Unresolvable(expression)) =>
        /\ pc = "raised"
        /\ result.exc = "OnCalendarError"
        /\ start.tzinfo # "None" => result = BaseIterator_init(strip(expression), start)

\* The construction failed on a last token that holds a colon: the token was
\* parsed as the time
C16_Witness ==
    /\ kind = "TzIterator"
    /\ pc = "raised"
    /\ start.tzinfo # "None"
    /\ Unresolvable(expression)
    /\ Contains(LastToken(expression), << ":" >>)
    /\ result = msg(HOUR)

(***************************************************************************)
(* Properties of the day-of-month matching and of Field.parse.             *)
(***************************************************************************)
\* The number of days of month m of year y, counted on the calendar: the
\* days from the first of the month on that still fall in the month
MonthLength(y, m) ==
    Cardinality({d \in 1 .. 31 : FromOrdinal(ToOrdinal(y, m, 1) + d - 1)[2] = m})

\* Years with and without a 29th of February, a century year of each kind
SampleYears == {2019, 2020, 2000, 2100}

\* The month after month m of year y
MonthAfter(y, m) == IF m = 12 THEN << y + 1, 1 >> ELSE << y, m + 1 >>

\* The values of seq fall in consecutive months
ConsecutiveMonths(seq) ==
    \A k \in 1 .. (Len(seq) - 1) :
        << seq[k + 1].year, seq[k + 1].month >> = MonthAfter(seq[k].year, seq[k].month)

\* The day set stands for the last n days of the month
LastDaysOnly(self, n) == self.days \ {0} = (0 - n) .. (0 - 1)

\* C17: a reverse day -k of the day set matches a date exactly when the day
\* of the month is the length of that month in that year, minus k, plus 1;
\* so a BaseIterator on the days {-1} returns the last day of every month,
\* and one on a weekday and the last seven days the last such weekday of
\* every month
C17_ReverseDay ==
    /\ (pc = "idle" /\ calls = 0) =>
          \A i \in 1 .. Len(iterator) :
              \A y \in SampleYears : \A m \in 1 .. 12 : \A d \in 1 .. MonthLength(y, m) :
                  match_dom(iterator[i], << y, m, d >>)
                      <=> \/ d \in iterator[i].days
                          \/ \E k \in 1 .. 31 :
                                /\ (0 - k) \in iterator[i].days
                                /\ d = MonthLength(y, m) - k + 1
    /\ \A n \in 1 .. 7 :
          (kind = "BaseIterator" /\ last.op = "return" /\ LastDaysOnly(iterator[1], n)) =>
              /\ \A k \in 1 .. Len(out) :
                    /\ out[k].day > MonthLength(out[k].year, out[k].month) - n
                    /\ Weekday(out[k].year, out[k].month, out[k].day)
                           \in iterator[1].weekdays
              /\ (/\ iterator[1].months = RANGES(MONTH)
                  /\ iterator[1].years = RANGES(YEAR)
                  /\ \/ n = 1 /\ iterator[1].weekdays = RANGES(DOW)
                     \/ n = 7 /\ Cardinality(iterator[1].weekdays) = 1)
                    => ConsecutiveMonths(out)

\* The last day of February of a leap year was returned, and after it the
\* last day of March
C17_Witness ==
    /\ kind = "BaseIterator"
    /\ last.op = "return"
    /\ iterator[1].days = {0 - 1}
    /\ \E k \in 1 .. (Len(out) - 1) :
          /\ out[k].month = 2
          /\ out[k].day = 29
          /\ out[k + 1].month = 3
          /\ out[k + 1].day = 31

(***************************************************************************)
(* Field.parse on its own (ParseSpec).                                     *)
(***************************************************************************)
Parsed(field) == kind = "Field.parse" /\ pc = "idle" /\ cur = field

Tilde(text) == << "~" >> \o text

\* The reverse-prefixed day tokens that name a value above 28: as a bare
\* literal, as a list term, as an interval bound and as the seed of a step
Above28Tokens ==
    LET V == ParseValues(DAY) \cap RANGES(DAY)
        Big == {v \in V : v > 28}
    IN  {Tilde(ValueText(DAY, a)) : a \in Big}
            \cup {Tilde(ListText(DAY, a, b)) : a \in Big, b \in V}
            \cup {Tilde(ListText(DAY, a, b)) : a \in V, b \in Big}
            \cup {Tilde(IntervalText(DAY, a, b)) : a \in V, b \in Big}
            \cup {Tilde(StepText(ValueText(DAY, a), n)) : a \in Big, n \in ParseSteps \ {0}}

\* C18: every negative member of a day-of-month set that Field.DAY.parse
\* returns has magnitude at most 28, and a `~` token that names a value above
\* 28 (bare literal, list term, interval bound or step seed) fails with the
\* day-of-month error.
C18_ReverseAtMost28 ==
    Parsed(DAY) =>
        /\ ~IsError(result) => \A v \in result.val : v < 0 => (0 - v) <= 28
        /\ expression \in Above28Tokens => result = msg(DAY)

\* `~29..31` parses to {-31, -30, -29}
C18_Witness ==
    /\ Parsed(DAY)
    /\ expression = Tilde(IntervalText(DAY, 29, 31))
    /\ result = [val |-> {0 - 31, 0 - 30, 0 - 29}]

\* The member v of a set parsed for the field, after sign adjustment
SignAdjusted(field, v) == IF field = DAY /\ v < 0 THEN 0 - v ELSE v

\* C19: every set Field.parse returns is non-empty and, after sign adjustment
\* (the negation of a negative day-of-month), a subset of the field's domain;
\* so 0 is never a member of a day-of-month set.
C19_WithinDomain ==
    (kind = "Field.parse" /\ pc = "idle" /\ ~IsError(result)) =>
        /\ result.val # {}
        /\ \A v \in result.val : SignAdjusted(cur, v) \in RANGES(cur)

\* `~7/1` parses to {-7, ..., -1, 0}
C19_Witness ==
    /\ Parsed(DAY)
    /\ expression = Tilde(StepText(ValueText(DAY, 7), 1))
    /\ result = [val |-> (0 - 7) .. 0]

\* {a + k*n : k >= 0 and a + k*n <= b}
EveryNth(a, b, n) == {x \in a .. b : (x - a) % n = 0}

\* The result stated for `a..b/n`, and in reverse-day mode for `~a..b/n`
IntervalStepIs(a, b, n) ==
    /\ expression = StepText(IntervalText(cur, a, b), n)
          => result = [val |-> EveryNth(a, b, n)]
    /\ (cur = DAY /\ expression = Tilde(StepText(IntervalText(cur, a, b), n)))
          => result = [val |-> EveryNth(0 - b, 0 - a, n)]

\* C20 as stated: for `a..b/n` with a <= b in the field's domain and n >= 1,
\* Field.parse returns exactly {a + k*n <= b}; in reverse-day mode the same
\* for the negated interval.
C20_IntervalStepFromEqual ==
    (kind = "Field.parse" /\ pc = "idle") =>
        \A a \in ParseValues(cur) \cap RANGES(cur) :
            \A b \in ParseValues(cur) \cap RANGES(cur) :
                \A n \in ParseSteps \ {0} :
                    a <= b => IntervalStepIs(a, b, n)

\* C20: for `a..b/n` with a < b in the domain of a field other than the
\* weekday and n >= 1, Field.parse returns exactly
\* {a + k*n : k >= 0 and a + k*n <= b}; in reverse-day mode (bounds up to 28)
\* the same holds for the negated interval -b .. -a.
C20_IntervalStep ==
    (kind = "Field.parse" /\ pc = "idle" /\ cur # DOW) =>
        \A a \in ParseValues(cur) \cap RANGES(cur) :
            \A b \in ParseValues(cur) \cap RANGES(cur) :
                \A n \in ParseSteps \ {0} :
                    a < b =>
                        /\ expression = StepText(IntervalText(cur, a, b), n)
                              => result = [val |-> EveryNth(a, b, n)]
                        /\ (/\ cur = DAY
                            /\ b <= 28
                            /\ expression = Tilde(StepText(IntervalText(cur, a, b), n)))
                              => result = [val |-> EveryNth(0 - b, 0 - a, n)]

\* `~1..7/2` parses to {-7, -5, -3, -1}
C20_Witness ==
    /\ Parsed(DAY)
    /\ expression = Tilde(StepText(IntervalText(DAY, 1, 7), 2))
    /\ result = [val |-> {0 - 7, 0 - 5, 0 - 3, 0 - 1}]


C22_Star ==
    (kind = "Field.parse" /\ pc = "idle") =>
        /\ expression = << "*" >>
              => result = (IF cur = DOW THEN msg(DOW) ELSE [val |-> RANGES(cur)])
        /\ expression \in StarTexts(cur) => result = msg(cur)

\* `*/1` in the minute field is rejected
C22_Witness ==
    /\ Parsed(MINUTE)
    /\ expression = StepText(<< "*" >>, 1)
    /\ result = msg(MINUTE)

\* What Field.int is to make of a year literal of value v
YearOf(v) ==
    IF v <= 69 THEN [val |-> {2000 + v}]
    ELSE IF v <= 99 THEN [val |-> {1900 + v}]
    ELSE IF v \in 1970 .. 2199 THEN [val |-> {v}]
    ELSE msg(YEAR)

\* C24: a year literal of ASCII digits with value v resolves to 2000+v when
\* 0 <= v <= 69, to 1900+v when 70 <= v <= 99, to v when 1970 <= v <= 2199,
\* and is rejected with the year error for every other value, however large.
C24_YearLiteral ==
    Parsed(YEAR) =>
        /\ \A v \in YearValues :
              \A z \in 0 .. 2 :
                  expression = Zeros(z) \o Dec(v) => result = YearOf(v)
        /\ expression = LongLiteral => result = msg(YEAR)

\* The literal of 4301 nines raises ValueError
C24_Witness ==
    /\ Parsed(YEAR)
    /\ expression = LongLiteral
    /\ result = ValueError

\* The year literals of at most MaxStrDigits digits resolve as stated
ShortYearLiterals ==
    Parsed(YEAR) =>
        \A v \in YearValues :
            \A z \in 0 .. 2 :
                expression = Zeros(z) \o Dec(v) => result = YearOf(v)


(***************************************************************************)
(* BaseIterator.__init__ on its own (ConstructSpec).                       *)
(***************************************************************************)
\* The part written for the field in the case c, << >> when it is absent
FieldPart(c, field) ==
    CASE field = DOW -> c[2]
      [] field = YEAR -> IF Len(c[3]) = 3 THEN c[3][1] ELSE << >>
      [] field = MONTH -> IF Len(c[3]) \in {2, 3} THEN c[3][Len(c[3]) - 1] ELSE << >>
      [] field = DAY -> IF Len(c[3]) \in {2, 3} THEN c[3][Len(c[3])] ELSE << >>
      [] field = HOUR -> IF Len(c[4]) \in {2, 3} THEN c[4][1] ELSE << >>
      [] field = MINUTE -> IF Len(c[4]) \in {2, 3} THEN c[4][2] ELSE << >>
      [] field = SECOND -> IF Len(c[4]) = 3 THEN c[4][3] ELSE << >>

\* The case has no token too many and its tokens have two or three parts
Shaped(c) ==
    /\ c[1] = << >>
    /\ c[5] = << >>
    /\ Len(c[3]) \in {0, 2, 3}
    /\ Len(c[4]) \in {0, 2, 3}

\* The part is absent or parses
Sound(field, part) ==
    \/ part = << >>
    \/ part \in GoodParts(field)
    \/ field = DAY /\ part = Tilde(ValueText(DAY, Lo(DAY)))

\* The parts with a lopsided interval or a zero step
Faulty(field) ==
    BadParts(field) \cup (IF field = DAY THEN {Tilde(b) : b \in BadParts(DAY)} ELSE {})

\* The cases the expression was written from
Written == {r[2] : r \in {x \in ConstructTable : x[1] = expression}}

\* C23: for every field, an interval whose end is less than its start and a
\* step of 0, in an expression that is otherwise well formed, make the
\* construction fail with OnCalendarError naming that field; no set is
\* produced.
C23_LopsidedAndZeroStep ==
    (kind = "BaseIterator" /\ pc # "new") =>
        \A c \in Written :
            \A f \in ParseFields :
                (/\ Shaped(c)
                 /\ FieldPart(c, f) \in Faulty(f)
                 /\ \A g \in ParseFields \ {f} : Sound(g, FieldPart(c, g)))
                    => /\ pc = "raised"
                       /\ result = msg(f)
                       /\ iterator = << >>

\* `*-*-31..1` fails with Bad day-of-month
C23_Witness ==
    /\ kind = "BaseIterator"
    /\ pc = "raised"
    /\ expression = ExpressionText(<< << >>, << >>,
                                      << Star, Star, IntervalText(DAY, 31, 1) >>,
                                      << >>, << >> >>)
    /\ result = msg(DAY)

\* Every part of the case is absent or parses
AllSound(c) == \A f \in ParseFields : Sound(f, FieldPart(c, f))

\* The set the field was given: what Field.parse makes of the part written
Given(field, part) == Field_parse(field, part, FALSE).val

\* The set the iterator holds for the field
Held(self, field) ==
    CASE field = DOW -> self.weekdays
      [] field = YEAR -> self.years
      [] field = MONTH -> self.months
      [] field = DAY -> self.days
      [] field = HOUR -> self.hours
      [] field = MINUTE -> self.minutes
      [] field = SECOND -> self.seconds

\* The default of an omitted field
DefaultOf(field) == IF field \in {HOUR, MINUTE, SECOND} THEN {0} ELSE RANGES(field)

\* C25: BaseIterator fills every omitted sub-field with its default and leaves
\* the given ones untouched: hours, minutes and seconds {0} without a time
\* token, seconds {0} for a time token of two parts, the full year, month and
\* day domains without a date token, the full year domain for a date token of
\* two parts, weekdays 0..6 without a weekday token (in an expression of
\* at least one token, whose tokens parse).
C25_Defaults ==
    (kind = "BaseIterator" /\ pc # "new") =>
        \A c \in Written \ {NoTokens} :
            (Shaped(c) /\ AllSound(c)) =>
                /\ pc = "idle"
                /\ \A f \in ParseFields :
                      Held(iterator[1], f) =
                          (IF FieldPart(c, f) = << >> THEN DefaultOf(f)
                           ELSE Given(f, FieldPart(c, f)))

\* `Mon 1/2-1` : a weekday, a date of two parts and no time
C25_Witness ==
    /\ kind = "BaseIterator"
    /\ pc = "idle"
    /\ expression = ExpressionText(<< << >>, << "M", "o", "n" >>,
                                      << StepText(ValueText(MONTH, 1), 2), ValueText(DAY, 1) >>,
                                      << >>, << >> >>)
    /\ iterator[1].weekdays = {0}
    /\ iterator[1].years = RANGES(YEAR)
    /\ iterator[1].months = {1, 3, 5, 7, 9, 11}
    /\ iterator[1].days = {1}
    /\ iterator[1].hours = {0}
    /\ iterator[1].minutes = {0}
    /\ iterator[1].seconds = {0}

\* The case has a token left after the time, the date and the weekday are
\* taken: with a last token that is neither a time nor a date, the first
\* token is the weekday and every other one is left; without one, the token
\* before the weekday token is the weekday and the weekday token is left
LeftOver(c) ==
    IF c[5] # << >>
    THEN c[1] # << >> \/ c[2] # << >> \/ c[3] # << >> \/ c[4] # << >>
    ELSE c[1] # << >> /\ c[2] # << >>

\* The weekday names that parse
GoodWeekdays == GoodParts(DOW) \cup { << "T", "u", "e" >> }

\* The sub-fields taken from such a case parse
TakenSound(c) ==
    IF c[5] # << >>
    THEN (IF c[1] # << >> THEN c[1] ELSE c[2]) \in GoodWeekdays
    ELSE /\ c[1] \in GoodWeekdays
         /\ Len(c[3]) \in {0, 2, 3}
         /\ Len(c[4]) \in {0, 2, 3}
         /\ \A f \in ParseFields \ {DOW} : Sound(f, FieldPart(c, f))

\* C26: an expression with no tokens, or with a token left unconsumed after
\* the time, date and weekday sub-fields have been taken from it, is rejected
\* at construction: with the "Wrong number of fields" error when the
\* sub-fields taken parse, and with OnCalendarError in every case.
C26_WrongNumberOfFields ==
    (kind = "BaseIterator" /\ pc # "new") =>
        /\ NoTokens \in Written => (pc = "raised" /\ result = WrongNumberOfFields)
        /\ \A c \in Written :
              LeftOver(c) =>
                  /\ pc = "raised"
                  /\ result.exc = "OnCalendarError"
                  /\ TakenSound(c) => result = WrongNumberOfFields

\* `Mon *-* *:* surprise` fails with Wrong number of fields
C26_Witness ==
    /\ kind = "BaseIterator"
    /\ pc = "raised"
    /\ expression = ExpressionText(<< << >>, << "M", "o", "n" >>, << Star, Star >>,
                                      << Star, Star >>,
                                      << "s", "u", "r", "p", "r", "i", "s", "e" >> >>)
    /\ result = WrongNumberOfFields

\* C26 as stated: an expression with no tokens, or with any token left
\* unconsumed, is rejected with the "Wrong number of fields" error.
C26_AlwaysWrongNumber ==
    (kind = "BaseIterator" /\ pc # "new") =>
        /\ NoTokens \in Written => (pc = "raised" /\ result = WrongNumberOfFields)
        /\ \A c \in Written :
              LeftOver(c) => (pc = "raised" /\ result = WrongNumberOfFields)


(***************************************************************************)
(* BaseIterator.__next__ with an advance_second that only scans: the       *)
(* reference the single-second jump is compared with.                      *)
(***************************************************************************)
\* advance_second without the jump: the while loop alone
advance_secondScan(self) ==
    IF self.dt.second \in self.seconds THEN << FALSE, self.dt >>
    ELSE << TRUE, ScanSecond(self.dt, self.seconds) >>

AfterMinuteScan(self, mi) ==
    IF mi[1] THEN Continue(mi[2]) ELSE AfterSecond(self, advance_secondScan(self))

AfterHourScan(self, ho) ==
    IF ho[1] THEN Continue(ho[2]) ELSE AfterMinuteScan(self, advance_minute(self))

AfterDayScan(self, da) ==
    IF da[1] THEN Continue(da[2]) ELSE AfterHourScan(self, advance_hour(self))

AfterMonthScan(self, mo) ==
    IF mo[1] THEN Continue(mo[2]) ELSE AfterDayScan(self, advance_day(self))

AfterYearScan(self) ==
    IF self.dt.year >= MAX_YEAR THEN Raise(self.dt, "StopIteration")
    ELSE AfterMonthScan(self, advance_month(self))

LoopBodyScan(self) == AfterYearScan([self EXCEPT !.dt = advance_year(self)])

\* The passes of the loop until one leaves it, r being the last pass made
RECURSIVE RunScan(_, _)
RunScan(self, r) ==
    IF r.op # "continue" THEN r
    ELSE RunScan([self EXCEPT !.dt = r.dt], LoopBodyScan([self EXCEPT !.dt = r.dt]))

\* __next__ of the scanning iterator, entered with self.dt = dt
NextScan(self, dt) ==
    IF IsError(NextSecond(dt)) THEN Raise(dt, NextSecond(dt).exc)
    ELSE RunScan(self, Continue(NextSecond(dt)))

\* The call of BaseIterator.__next__ that `last` records, as the pass that
\* left the loop: what was returned or raised, and self.dt afterwards
LastPass ==
    [op |-> last.op,
     dt |-> iterator[last.it].dt,
     value |-> IF last.op = "return" THEN last.value ELSE iterator[last.it].dt,
     exc |-> last.exc]

PassOf(r) ==
    [op |-> r.op,
     dt |-> r.dt,
     value |-> IF r.op = "return" THEN r.value ELSE r.dt,
     exc |-> IF r.op = "raise" THEN r.exc ELSE "None"]

\* C27: the single-second jump of advance_second changes no result: every
\* call of __next__ on an iterator whose second set has one member returns
\* (or raises) what the call returns when advance_second only scans second by
\* second, and leaves the same self.dt, so the two sequences are equal.
C27_JumpIsScan ==
    (last.op # "none" /\ pc # "loop") =>
        (Cardinality(iterator[last.it].seconds) = 1 =>
            LastPass = PassOf(NextScan(iterator[last.it], last.cursor)))

\* A call whose jump went over the end of the minute: self.dt was at or
\* after the target second and the value returned is in a later minute
C27_Witness ==
    /\ last.op = "return"
    /\ pc # "loop"
    /\ Cardinality(iterator[last.it].seconds) = 1
    /\ iterator[last.it].minutes = RANGES(MINUTE)
    /\ last.cursor.second >= CHOOSE x \in iterator[last.it].seconds : TRUE
    /\ (CHOOSE x \in iterator[last.it].seconds : TRUE) > 0
    /\ last.value.minute # last.cursor.minute


\* dt.replace(hour=0, minute=0, second=0)
Midnight(dt) == [dt EXCEPT !.hour = 0, !.minute = 0, !.second = 0]

\* C28: end-of-sequence is permanent: once a call of __next__ on the object
\* has raised StopIteration, every later call raises StopIteration too, and
\* neither returns a value nor raises another error; the cursor of the
\* iterator stays where it is, at midnight of a day past the last year, and
\* the multiplexer's set of live sub-iterators stays empty.
C28_EndIsPermanent ==
    [][EndOfSequence(result) =>
          /\ EndOfSequence(result')
          /\ out' = out
          /\ kind = "OnCalendar" => DOMAIN oc'.iterators = {}
          /\ (kind # "OnCalendar" /\ pc' = "idle") =>
                /\ iterator'[1].dt.year >= MAX_YEAR
                /\ iterator'[1].dt = Midnight(iterator[1].dt)]_vars

\* The sequence had values, ended, and a later call has ended again
C28_Witness ==
    /\ pc = "idle"
    /\ EndOfSequence(result)
    /\ Len(out) >= 1
    /\ calls >= Len(out) + 2

\* No two values of the sequence are the same instant
NoRepeat(seq) ==
    \A i \in 1 .. Len(seq) : \A j \in 1 .. Len(seq) :
        i < j => AbsKey(seq[i]) # AbsKey(seq[j])

\* In the for loop of OnCalendar.__next__ every sub-iterator whose cached
\* value is the instant self.dt is advanced
EqualCachedAdvanced ==
    [][(/\ kind = "OnCalendar"
        /\ pc = "for"
        /\ keys # << >>
        /\ AbsKey(oc.iterators[Head(keys)]) = AbsKey(oc.dt))
          => /\ cur' = Head(keys)
             /\ cursor' = iterator[Head(keys)].dt
             /\ pc' = "loop" \/ result'.op = "raise"]_vars

\* C29: when two or more sub-expressions of OnCalendar produce the same
\* instant, the multiplexer returns that instant exactly once: the values
\* OnCalendar has returned never hold the same instant twice.
C29_OnceOnly == kind = "OnCalendar" => NoRepeat(out)

\* Two sub-iterators have produced the same instant and OnCalendar has
\* returned it twice, with an earlier instant in between
C29_Witness ==
    /\ kind = "OnCalendar"
    /\ pc = "idle"
    /\ Len(produced) >= 2
    /\ \E a \in 1 .. Len(produced[1]) : \E b \in 1 .. Len(produced[2]) :
          \E i \in 1 .. Len(out) : \E j \in 1 .. Len(out) :
              /\ i < j
              /\ AbsKey(produced[1][a]) = AbsKey(produced[2][b])
              /\ AbsKey(out[i]) = AbsKey(produced[1][a])
              /\ AbsKey(out[j]) = AbsKey(out[i])

=============================================================================
